---- MODULE Spec2Model ----
(***************************************************************************)
(* git-cleanup: classification of removable worktrees and branches, the    *)
(* mutations that remove them, and the cleanup flow that sequences them.   *)
(*                                                                         *)
(* Text (branch names, listing lines, configuration values) is a sequence  *)
(* of one-character strings, so that suffix tests, the backup regular      *)
(* expression, join(" ") and split(" ") are computed as the code computes  *)
(* them.                                                                   *)
(***************************************************************************)
EXTENDS Integers, Sequences, FiniteSets, TLC

VARIABLES
    \* ---- the repository, as the git executable sees it
    worktrees,      \* worktree listing: sequence of [path, branch], primary first
    branches,       \* local branches: sequence of [name, track], in listing order
    ignoredCfg,     \* config cleanup.ignoredBranches: [set, val]
    wtIgnore,       \* per-worktree config cleanup.ignore: path -> "absent"/"true"/"false"
    worktreeConfig, \* config extensions.worktreeconfig is true
    remoteDeleted,  \* branches whose upstream was deleted since the last fetch
    \* ---- the program
    caller,         \* which exported function was entered: "cleanup", ...
    pc,             \* position of the async function being run
    run,            \* number of the current run of the flow
    calls,          \* executor calls issued in this run, in issue order, with status
    widget,         \* multiSelect invocations in this run: sequence of option lists
    loc,            \* local variables of the running functions
    hist            \* what earlier runs offered and left unselected

vars == <<worktrees, branches, ignoredCfg, wtIgnore, worktreeConfig, remoteDeleted,
          caller, pc, run, calls, widget, loc, hist>>

world == <<worktrees, branches, ignoredCfg, wtIgnore, worktreeConfig, remoteDeleted>>

----------------------------------------------------------------------------
\* Text helpers

SeqToSet(s) == { s[i] : i \in 1..Len(s) }

DIGITS == {"0", "1", "2", "3", "4", "5", "6", "7", "8", "9"}

GONE == <<"[", "g", "o", "n", "e", "]">>

AHEAD == <<"[", "a", "h", "e", "a", "d", " ", "1", "]">>

BACKUP == <<"-", "b", "a", "c", "k", "u", "p">>

\* String.prototype.endsWith
EndsWith(s, suffix) ==
    /\ Len(s) >= Len(suffix)
    /\ SubSeq(s, Len(s) - Len(suffix) + 1, Len(s)) = suffix

\* s.slice(0, -n)
SliceOff(s, n) == SubSeq(s, 1, Len(s) - n)

\* The value of an optional chain that found nothing.
Undefined == <<"undefined">>

\* /^(.+)-backup\d*$/.exec(branch)?.[1]
BackupParent(branch) ==
    LET fits(k) == /\ k >= 1
                   /\ k + Len(BACKUP) <= Len(branch)
                   /\ SubSeq(branch, k + 1, k + Len(BACKUP)) = BACKUP
                   /\ \A j \in (k + Len(BACKUP) + 1)..Len(branch) : branch[j] \in DIGITS
        ks == { k \in 1..Len(branch) : fits(k) }
    IN  IF ks = {} THEN Undefined
        ELSE SubSeq(branch, 1, CHOOSE k \in ks : \A m \in ks : m <= k)

RECURSIVE JoinSpace(_)
\* branches.join(" ")
JoinSpace(names) ==
    IF names = << >> THEN << >>
    ELSE IF Len(names) = 1 THEN names[1]
    ELSE names[1] \o <<" ">> \o JoinSpace(Tail(names))

RECURSIVE SplitSpace(_)
\* text.split(" ")
SplitSpace(text) ==
    LET sp == { i \in 1..Len(text) : text[i] = " " }
    IN  IF sp = {} THEN <<text>>
        ELSE LET i == CHOOSE k \in sp : \A m \in sp : k <= m
             IN  <<SubSeq(text, 1, i - 1)>> \o SplitSpace(SubSeq(text, i + 1, Len(text)))

\* Array.prototype.filter on a sequence, by index
RECURSIVE FilterIdx(_, _, _)
FilterIdx(s, keep, i) ==
    IF i > Len(s) THEN << >>
    ELSE (IF i \in keep THEN <<s[i]>> ELSE << >>) \o FilterIdx(s, keep, i + 1)

Filter(s, keep) == FilterIdx(s, keep, 1)

----------------------------------------------------------------------------
\* Pure parts of git.ts

NoBranch == << >>

\* stripPrefix(line, prefix): a line of the porcelain listing is [key, val],
\* written by git as "<key> <val>"; the prefixes used are "worktree " and
\* "branch refs/heads/".
StripPrefix(line, key) == IF line.key = key THEN line.val ELSE Undefined

\* mapNotNullish(lines, f)
MapNotNullish(s, f(_)) ==
    LET keep == { i \in 1..Len(s) : f(s[i]) # Undefined }
        kept == Filter(s, keep)
    IN  [ i \in 1..Len(kept) |-> f(kept[i]) ]

RECURSIVE Flatten(_)
\* the lines of a text made of sections (the blank separator lines strip to null)
Flatten(sections) ==
    IF sections = << >> THEN << >> ELSE Head(sections) \o Flatten(Tail(sections))

\* faulty variant: the first worktree is kept
GetWorktreesResultAll(sections) ==
    MapNotNullish(Flatten(sections), LAMBDA line : StripPrefix(line, "worktree"))

\* getWorktrees, after the listing query returned `sections`
GetWorktreesResult(sections) ==
    LET paths == MapNotNullish(Flatten(sections), LAMBDA line : StripPrefix(line, "worktree"))
    IN  IF paths = << >> THEN << >> ELSE Tail(paths)

\* firstNotNullishOf(lines, f)
FirstNotNullishOf(lines, f(_)) ==
    LET hits == { i \in 1..Len(lines) : f(lines[i]) # Undefined }
    IN  IF hits = {} THEN Undefined
        ELSE f(lines[CHOOSE i \in hits : \A j \in hits : i <= j])

\* faulty variant: of two sections naming a branch the earlier one is kept
GetBranchWorktreesResultFirstWins(sections) ==
    LET wt(i) == FirstNotNullishOf(sections[i], LAMBDA line : StripPrefix(line, "worktree"))
        br(i) == FirstNotNullishOf(sections[i], LAMBDA line : StripPrefix(line, "branch"))
        ok == { i \in 1..Len(sections) : wt(i) # Undefined /\ br(i) # Undefined }
        keys == { br(i) : i \in ok }
    IN  [ b \in keys |-> wt(CHOOSE i \in ok : br(i) = b /\ \A j \in ok : br(j) = b => i <= j) ]

\* getBranchWorktrees, after the listing query returned `sections`: the Map
\* built from the [branch, worktree] pairs, a later pair replacing an earlier.
GetBranchWorktreesResult(sections) ==
    LET wt(i) == FirstNotNullishOf(sections[i], LAMBDA line : StripPrefix(line, "worktree"))
        br(i) == FirstNotNullishOf(sections[i], LAMBDA line : StripPrefix(line, "branch"))
        ok == { i \in 1..Len(sections) : wt(i) # Undefined /\ br(i) # Undefined }
        keys == { br(i) : i \in ok }
    IN  [ b \in keys |-> wt(CHOOSE i \in ok : br(i) = b /\ \A j \in ok : br(j) = b => j <= i) ]

\* branchWorktrees.get(branch)
MapGet(m, k) == IF k \in DOMAIN m THEN m[k] ELSE Undefined

\* faulty variant: any line of a gone branch counts, current or not
DeletedAnyGone(lines) ==
    \E i \in 1..Len(lines) : Len(lines[i]) >= 6 /\ SubSeq(lines[i], 1, 6) = GONE

\* lines.some((line) => line === "[gone] *")
Deleted(lines) == \E i \in 1..Len(lines) : lines[i] = GONE \o <<" ", "*">>

\* faulty variant: any stored value counts as ignored
IgnoredAnyValue(text) == text # << >>

\* .text().then((ignore) => ignore === "true")
Ignored(text) == text = <<"t", "r", "u", "e">>

\* getRemovableWorktrees, after every query returned: deleted and ignored are
\* the per-path results; null entries are filtered out.
GetRemovableWorktreesResult(paths, deleted, ignored) ==
    LET keep == { i \in 1..Len(paths) : deleted[paths[i]] }
        kept == Filter(paths, keep)
    IN  [ i \in 1..Len(kept) |-> [path |-> kept[i], ignored |-> ignored[kept[i]]] ]

\* faulty variant: a blank value is split like any other
GetIgnoredBranchesResultNoBlank(text) == SplitSpace(text)

\* getIgnoredBranches, after the config query returned `text`
GetIgnoredBranchesResult(text) == IF Len(text) > 0 THEN SplitSpace(text) ELSE << >>

\* the parents found by stripping one backup suffix after another
RECURSIVE Ancestors(_)
Ancestors(branch) ==
    IF BackupParent(branch) = Undefined THEN {}
    ELSE {BackupParent(branch)} \cup Ancestors(BackupParent(branch))

\* faulty variant: the backup rule is applied to the parent's parent as well
GetRemovableBranchesResultRecursive(branchLines, ignoredBranches) ==
    LET stripped == [ i \in 1..Len(branchLines) |->
                        IF EndsWith(branchLines[i], GONE)
                        THEN SliceOff(branchLines[i], 6) ELSE branchLines[i] ]
        mergedBranches == { SliceOff(branchLines[i], 6) :
                              i \in { j \in 1..Len(branchLines) : EndsWith(branchLines[j], GONE) } }
        merged(branch) == \E mergedBranch \in mergedBranches :
                              branch = mergedBranch \/ mergedBranch \in Ancestors(branch)
        orphaned(branch) == LET parentBranch == BackupParent(branch)
                            IN  /\ parentBranch # Undefined
                                /\ parentBranch \notin SeqToSet(stripped)
        keep == { i \in 1..Len(stripped) : merged(stripped[i]) \/ orphaned(stripped[i]) }
        kept == Filter(stripped, keep)
    IN  [ i \in 1..Len(kept) |->
            [name |-> kept[i], ignored |-> kept[i] \in SeqToSet(ignoredBranches)] ]

\* faulty variant: a backup of an ignored branch is ignored as well
GetRemovableBranchesResultIgnoreParent(branchLines, ignoredBranches) ==
    LET stripped == [ i \in 1..Len(branchLines) |->
                        IF EndsWith(branchLines[i], GONE)
                        THEN SliceOff(branchLines[i], 6) ELSE branchLines[i] ]
        mergedBranches == { SliceOff(branchLines[i], 6) :
                              i \in { j \in 1..Len(branchLines) : EndsWith(branchLines[j], GONE) } }
        merged(branch) == \E mergedBranch \in mergedBranches :
                              branch = mergedBranch \/ BackupParent(branch) = mergedBranch
        orphaned(branch) == LET parentBranch == BackupParent(branch)
                            IN  /\ parentBranch # Undefined
                                /\ parentBranch \notin SeqToSet(stripped)
        keep == { i \in 1..Len(stripped) : merged(stripped[i]) \/ orphaned(stripped[i]) }
        kept == Filter(stripped, keep)
    IN  [ i \in 1..Len(kept) |->
            [name |-> kept[i],
             ignored |-> \/ kept[i] \in SeqToSet(ignoredBranches)
                         \/ BackupParent(kept[i]) \in SeqToSet(ignoredBranches)] ]

\* faulty variant: the merged branches come first, the orphaned backups after
GetRemovableBranchesResultGrouped(branchLines, ignoredBranches) ==
    LET stripped == [ i \in 1..Len(branchLines) |->
                        IF EndsWith(branchLines[i], GONE)
                        THEN SliceOff(branchLines[i], 6) ELSE branchLines[i] ]
        mergedBranches == { SliceOff(branchLines[i], 6) :
                              i \in { j \in 1..Len(branchLines) : EndsWith(branchLines[j], GONE) } }
        merged(branch) == \E mergedBranch \in mergedBranches :
                              branch = mergedBranch \/ BackupParent(branch) = mergedBranch
        orphaned(branch) == LET parentBranch == BackupParent(branch)
                            IN  /\ parentBranch # Undefined
                                /\ parentBranch \notin SeqToSet(stripped)
        kept == Filter(stripped, { i \in 1..Len(stripped) : merged(stripped[i]) })
                \o Filter(stripped, { i \in 1..Len(stripped) :
                                        ~merged(stripped[i]) /\ orphaned(stripped[i]) })
    IN  [ i \in 1..Len(kept) |->
            [name |-> kept[i], ignored |-> kept[i] \in SeqToSet(ignoredBranches)] ]

\* getRemovableBranches, after both queries returned
GetRemovableBranchesResult(branchLines, ignoredBranches) ==
    LET stripped == [ i \in 1..Len(branchLines) |->
                        IF EndsWith(branchLines[i], GONE)
                        THEN SliceOff(branchLines[i], 6) ELSE branchLines[i] ]
        mergedBranches == { SliceOff(branchLines[i], 6) :
                              i \in { j \in 1..Len(branchLines) : EndsWith(branchLines[j], GONE) } }
        merged(branch) == \E mergedBranch \in mergedBranches :
                              branch = mergedBranch \/ BackupParent(branch) = mergedBranch
        orphaned(branch) == LET parentBranch == BackupParent(branch)
                            IN  /\ parentBranch # Undefined
                                /\ parentBranch \notin SeqToSet(stripped)
        keep == { i \in 1..Len(stripped) : merged(stripped[i]) \/ orphaned(stripped[i]) }
        kept == Filter(stripped, keep)
    IN  [ i \in 1..Len(kept) |->
            [name |-> kept[i], ignored |-> kept[i] \in SeqToSet(ignoredBranches)] ]

\* faulty variant: deselected is every unselected option
PromptResultNoDefault(options, selectedIndexes) ==
    LET idx == 1..Len(options)
        text(s) == [ i \in 1..Len(s) |-> s[i].text ]
    IN  [ selected   |-> text(Filter(options, idx \cap selectedIndexes)),
          unselected |-> text(Filter(options, idx \ selectedIndexes)),
          deselected |-> text(Filter(options, idx \ selectedIndexes)) ]

\* faulty variant: an option the user unchecked is left out of unselected
PromptResultThreeWay(options, selectedIndexes) ==
    LET idx == 1..Len(options)
        text(s) == [ i \in 1..Len(s) |-> s[i].text ]
    IN  [ selected   |-> text(Filter(options, idx \cap selectedIndexes)),
          unselected |-> text(Filter(options,
                              { i \in idx \ selectedIndexes : ~options[i].selected })),
          deselected |-> text(Filter(options,
                              { i \in idx \ selectedIndexes : options[i].selected })) ]

\* prompt, given the indices the widget returned (none when it was not asked)
PromptResult(options, selectedIndexes) ==
    LET idx == 1..Len(options)
        text(s) == [ i \in 1..Len(s) |-> s[i].text ]
    IN  [ selected   |-> text(Filter(options, idx \cap selectedIndexes)),
          unselected |-> text(Filter(options, idx \ selectedIndexes)),
          deselected |-> text(Filter(options,
                              { i \in idx \ selectedIndexes : options[i].selected })) ]

----------------------------------------------------------------------------
\* The git executable: what each query prints for the repository state, and
\* what each mutation does to it.

NONE == << >>

TRUE_TEXT == <<"t", "r", "u", "e">>

FALSE_TEXT == <<"f", "a", "l", "s", "e">>

Paths(wts) == { wts[i].path : i \in 1..Len(wts) }

IndexOfPath(wts, path) == CHOOSE i \in 1..Len(wts) : wts[i].path = path

\* git worktree list --porcelain: one section per worktree
Porcelain(wts) ==
    [ i \in 1..Len(wts) |->
        << [key |-> "worktree", val |-> wts[i].path],
           [key |-> "HEAD", val |-> <<"0">>],
           IF wts[i].branch = NoBranch
           THEN [key |-> "detached", val |-> << >>]
           ELSE [key |-> "branch", val |-> wts[i].branch] >> ]

\* git -C path branch --format '%(upstream:track) %(HEAD)': one line per local
\* branch, and one for the detached HEAD when the worktree has no branch
TrackLines(wts, brs, path) ==
    LET mine == wts[IndexOfPath(wts, path)].branch
        head(b) == IF b = mine THEN <<"*">> ELSE <<" ">>
        detachedLine == IF mine = NoBranch THEN << <<" ", "*">> >> ELSE << >>
    IN  detachedLine \o [ i \in 1..Len(brs) |-> brs[i].track \o <<" ">> \o head(brs[i].name) ]

\* git branch --format '%(refname:short)%(upstream:track)'
BranchLines(brs) == [ i \in 1..Len(brs) |-> brs[i].name \o brs[i].track ]

BranchNames(brs) == { brs[i].name : i \in 1..Len(brs) }

CheckedOut(wts) == { wts[i].branch : i \in 1..Len(wts) } \ {NoBranch}

\* git worktree remove path --force
RemoveWorktree(wts, path) == Filter(wts, { i \in 1..Len(wts) : wts[i].path # path })

\* git -C path switch --detach
Detach(wts, path) ==
    [ i \in 1..Len(wts) |-> IF wts[i].path = path
                            THEN [wts[i] EXCEPT !.branch = NoBranch] ELSE wts[i] ]

\* git branch -D names: a branch that exists and is checked out nowhere is
\* deleted; any other name makes the command exit with failure
Deletable(wts, brs, names) == (SeqToSet(names) \cap BranchNames(brs)) \ CheckedOut(wts)

DeleteBranchRefs(wts, brs, names) ==
    Filter(brs, { i \in 1..Len(brs) : brs[i].name \notin Deletable(wts, brs, names) })

----------------------------------------------------------------------------
\* The executor ($): calls are issued by the program and complete later, in
\* any order.

Call(cmd, path, arg, echo, phase) ==
    [cmd |-> cmd, path |-> path, arg |-> arg, echo |-> echo, phase |-> phase,
     st |-> "running", out |-> << >>]

NoPath == << >>

Idx(phase, cmd) == { i \in 1..Len(calls) : calls[i].phase = phase /\ calls[i].cmd = cmd }

IdxAt(phase, cmd, path) == { i \in Idx(phase, cmd) : calls[i].path = path }

AllOk(I) == \A i \in I : calls[i].st = "ok"

AllDone(I) == \A i \in I : calls[i].st # "running"

AnyFailed(I) == \E i \in I : calls[i].st = "failed"

TheCall(phase, cmd) == calls[CHOOSE i \in Idx(phase, cmd) : TRUE]

Finish(i, st, out) == calls' = [calls EXCEPT ![i].st = st, ![i].out = out]

\* One call completes: the command reads or changes the repository and exits.
QueryExits(i) ==
    LET c == calls[i] IN
    /\ c.st = "running"
    /\ c.cmd \in {"worktree-list", "track", "get-ignore", "branch-list", "get-ignored-branches"}
    /\ CASE c.cmd = "worktree-list" -> Finish(i, "ok", Porcelain(worktrees))
         [] c.cmd = "track" ->
                IF c.path \in Paths(worktrees)
                THEN Finish(i, "ok", TrackLines(worktrees, branches, c.path))
                ELSE Finish(i, "failed", << >>)
         [] c.cmd = "get-ignore" ->
                IF /\ c.path \in Paths(worktrees)
                   /\ worktreeConfig
                   /\ wtIgnore[c.path] # "absent"
                THEN Finish(i, "ok", IF wtIgnore[c.path] = "true" THEN TRUE_TEXT ELSE FALSE_TEXT)
                ELSE Finish(i, "failed", << >>)
         [] c.cmd = "branch-list" -> Finish(i, "ok", BranchLines(branches))
         [] c.cmd = "get-ignored-branches" ->
                IF ignoredCfg.set THEN Finish(i, "ok", ignoredCfg.val)
                ELSE Finish(i, "failed", << >>)
    /\ UNCHANGED <<world, caller, pc, run, widget, loc, hist>>

\* git fetch --prune: the branches whose upstream was deleted become [gone]
Pruned(brs, deleted) ==
    [ i \in 1..Len(brs) |-> IF brs[i].name \in deleted
                            THEN [brs[i] EXCEPT !.track = GONE] ELSE brs[i] ]

FetchExits(i) ==
    /\ calls[i].st = "running"
    /\ calls[i].cmd = "fetch"
    /\ \E ok \in BOOLEAN :
         IF ok
         THEN /\ branches' = Pruned(branches, remoteDeleted)
              /\ remoteDeleted' = {}
              /\ Finish(i, "ok", << >>)
         ELSE /\ UNCHANGED <<branches, remoteDeleted>>
              /\ Finish(i, "failed", << >>)
    /\ UNCHANGED <<worktrees, ignoredCfg, wtIgnore, worktreeConfig,
                   caller, pc, run, widget, loc, hist>>

RemoveExits(i) ==
    LET c == calls[i] IN
    /\ c.st = "running"
    /\ c.cmd = "worktree-remove"
    /\ \E ok \in BOOLEAN :
         IF ok /\ c.path \in Paths(worktrees)
         THEN /\ worktrees' = RemoveWorktree(worktrees, c.path)
              /\ wtIgnore' = [wtIgnore EXCEPT ![c.path] = "absent"]
              /\ Finish(i, "ok", << >>)
         ELSE /\ UNCHANGED <<worktrees, wtIgnore>>
              /\ Finish(i, "failed", << >>)
    /\ UNCHANGED <<branches, ignoredCfg, worktreeConfig, remoteDeleted,
                   caller, pc, run, widget, loc, hist>>

DetachExits(i) ==
    LET c == calls[i] IN
    /\ c.st = "running"
    /\ c.cmd = "switch-detach"
    /\ \E ok \in BOOLEAN :
         IF ok /\ c.path \in Paths(worktrees)
         THEN /\ worktrees' = Detach(worktrees, c.path)
              /\ Finish(i, "ok", << >>)
         ELSE /\ UNCHANGED worktrees
              /\ Finish(i, "failed", << >>)
    /\ UNCHANGED <<branches, ignoredCfg, wtIgnore, worktreeConfig, remoteDeleted,
                   caller, pc, run, widget, loc, hist>>

BranchDeleteExits(i) ==
    LET c == calls[i] IN
    /\ c.st = "running"
    /\ c.cmd = "branch-D"
    /\ \E ok \in BOOLEAN :
         IF ok
         THEN /\ branches' = DeleteBranchRefs(worktrees, branches, c.arg)
              /\ Finish(i, IF SeqToSet(c.arg) \subseteq Deletable(worktrees, branches, c.arg)
                           THEN "ok" ELSE "failed", << >>)
         ELSE /\ UNCHANGED branches
              /\ Finish(i, "failed", << >>)
    /\ UNCHANGED <<worktrees, ignoredCfg, wtIgnore, worktreeConfig, remoteDeleted,
                   caller, pc, run, widget, loc, hist>>

ConfigSetExits(i) ==
    LET c == calls[i] IN
    /\ c.st = "running"
    /\ c.cmd \in {"enable-worktreeconfig", "set-ignore", "set-ignored-branches"}
    /\ CASE c.cmd = "enable-worktreeconfig" ->
                /\ worktreeConfig' = TRUE
                /\ UNCHANGED <<wtIgnore, ignoredCfg>>
                /\ Finish(i, "ok", << >>)
         [] c.cmd = "set-ignore" ->
                IF c.path \in Paths(worktrees) /\ worktreeConfig
                THEN /\ wtIgnore' = [wtIgnore EXCEPT ![c.path] = "true"]
                     /\ UNCHANGED <<worktreeConfig, ignoredCfg>>
                     /\ Finish(i, "ok", << >>)
                ELSE /\ UNCHANGED <<worktreeConfig, wtIgnore, ignoredCfg>>
                     /\ Finish(i, "failed", << >>)
         [] c.cmd = "set-ignored-branches" ->
                /\ ignoredCfg' = [set |-> TRUE, val |-> c.arg]
                /\ UNCHANGED <<worktreeConfig, wtIgnore>>
                /\ Finish(i, "ok", << >>)
    /\ UNCHANGED <<worktrees, branches, remoteDeleted, caller, pc, run, widget, loc, hist>>

ExecQuery == \E i \in 1..Len(calls) : QueryExits(i)

ExecFetch == \E i \in 1..Len(calls) : FetchExits(i)

ExecRemove == \E i \in 1..Len(calls) : RemoveExits(i)

ExecDetach == \E i \in 1..Len(calls) : DetachExits(i)

ExecBranchDelete == \E i \in 1..Len(calls) : BranchDeleteExits(i)

ExecConfigSet == \E i \in 1..Len(calls) : ConfigSetExits(i)

----------------------------------------------------------------------------
\* The program: git.ts, prompt.ts and main.ts, one action per stretch of code
\* between two awaits.

EmptyLoc ==
    [names |-> << >>, wtPaths |-> << >>, removableWorktrees |-> << >>,
     selectedWorktrees |-> << >>, deselectedWorktrees |-> << >>,
     removableBranches |-> << >>, unselectedBranches |-> << >>,
     detaching |-> << >>, worktreeIndexes |-> {}, branchIndexes |-> {},
     ignoredBranches |-> << >>,
     options |-> << >>, sections |-> << >>, branchWorktrees |-> << >>,
     promptResult |-> [selected |-> << >>, unselected |-> << >>, deselected |-> << >>]]

IsCleanup == caller = "cleanup"

\* cleanup: await $`git fetch --prune`
Fetch ==
    /\ IsCleanup
    /\ pc = "start"
    /\ calls' = Append(calls, Call("fetch", NoPath, << >>, FALSE, "fetch"))
    /\ pc' = "fetch"
    /\ UNCHANGED <<world, caller, run, widget, loc, hist>>

AfterFetch ==
    /\ pc = "fetch"
    /\ AllDone(Idx("fetch", "fetch"))
    /\ pc' = IF AnyFailed(Idx("fetch", "fetch")) THEN "failed" ELSE "grw_start"
    /\ UNCHANGED <<world, caller, run, calls, widget, loc, hist>>

\* getRemovableWorktrees -> getWorktrees: the listing query
GrwStart ==
    /\ pc = "grw_start"
    /\ calls' = Append(calls, Call("worktree-list", NoPath, << >>, FALSE, "classifyWorktrees"))
    /\ pc' = "grw_list"
    /\ UNCHANGED <<world, caller, run, widget, loc, hist>>

RECURSIVE WorktreeQueries(_)
\* worktrees.map(async (path) => ...): two queries per path, issued in order
WorktreeQueries(paths) ==
    IF paths = << >> THEN << >>
    ELSE << Call("track", Head(paths), << >>, FALSE, "classifyWorktrees"),
            Call("get-ignore", Head(paths), << >>, FALSE, "classifyWorktrees") >>
         \o WorktreeQueries(Tail(paths))

GrwList ==
    /\ pc = "grw_list"
    /\ AllDone(Idx("classifyWorktrees", "worktree-list"))
    /\ IF AnyFailed(Idx("classifyWorktrees", "worktree-list"))
       THEN /\ pc' = "failed"
            /\ UNCHANGED <<calls, loc>>
       ELSE LET paths == GetWorktreesResult(TheCall("classifyWorktrees", "worktree-list").out)
            IN  /\ loc' = [loc EXCEPT !.wtPaths = paths]
                /\ calls' = calls \o WorktreeQueries(paths)
                /\ pc' = "grw_queries"
    /\ UNCHANGED <<world, caller, run, widget, hist>>

\* the results of the per-worktree queries, by path
DeletedOf(path) ==
    \E i \in IdxAt("classifyWorktrees", "track", path) : Deleted(calls[i].out)

IgnoredOf(path) ==
    \E i \in IdxAt("classifyWorktrees", "get-ignore", path) : Ignored(calls[i].out)

\* faulty variant: the result is built once the tracking queries returned,
\* from whatever flag queries have returned by then
GrwQueriesNoAwait ==
    /\ pc = "grw_queries"
    /\ \/ /\ AnyFailed(Idx("classifyWorktrees", "track"))
          /\ pc' = "failed"
          /\ UNCHANGED loc
       \/ /\ AllOk(Idx("classifyWorktrees", "track"))
          /\ loc' = [loc EXCEPT !.removableWorktrees =
                        GetRemovableWorktreesResult(loc.wtPaths,
                            [p \in SeqToSet(loc.wtPaths) |-> DeletedOf(p)],
                            [p \in SeqToSet(loc.wtPaths) |-> IgnoredOf(p)])]
          /\ pc' = IF IsCleanup THEN "prompt_wt" ELSE "done"
    /\ UNCHANGED <<world, caller, run, calls, widget, hist>>

GrwQueries ==
    /\ pc = "grw_queries"
    /\ \/ /\ AnyFailed(Idx("classifyWorktrees", "track"))
          /\ pc' = "failed"
          /\ UNCHANGED loc
       \/ /\ AllOk(Idx("classifyWorktrees", "track"))
          /\ AllDone(Idx("classifyWorktrees", "get-ignore"))
          /\ loc' = [loc EXCEPT !.removableWorktrees =
                        GetRemovableWorktreesResult(loc.wtPaths,
                            [p \in SeqToSet(loc.wtPaths) |-> DeletedOf(p)],
                            [p \in SeqToSet(loc.wtPaths) |-> IgnoredOf(p)])]
          /\ pc' = IF IsCleanup THEN "prompt_wt" ELSE "done"
    /\ UNCHANGED <<world, caller, run, calls, widget, hist>>

\* removableWorktrees.map(({ path, ignored }) => ({ text: path, selected: !ignored }))
WorktreeOptions(removable) ==
    [ i \in 1..Len(removable) |-> [text |-> removable[i].path, selected |-> ~removable[i].ignored] ]

\* faulty variant: every branch is offered checked
BranchOptionsAllSelected(removable) ==
    [ i \in 1..Len(removable) |-> [text |-> removable[i].name, selected |-> TRUE] ]

\* removableBranches.map(({ name, ignored }) => ({ text: name, selected: !ignored }))
BranchOptions(removable) ==
    [ i \in 1..Len(removable) |-> [text |-> removable[i].name, selected |-> ~removable[i].ignored] ]

\* faulty variant: the widget is asked even with no option
PromptedAlways(message, options, selectedIndexes) ==
    /\ selectedIndexes \in SUBSET (1..Len(options))
    /\ widget' = Append(widget, [message |-> message, options |-> options])

\* prompt: the widget is asked unless there is no option; it answers with any
\* set of indices
Prompted(message, options, selectedIndexes) ==
    IF Len(options) = 0
    THEN /\ selectedIndexes = {}
         /\ widget' = widget
    ELSE /\ selectedIndexes \in SUBSET (1..Len(options))
         /\ widget' = Append(widget, [message |-> message, options |-> options])

\* prompt, called on its own with loc.options
Prompt ==
    /\ caller = "prompt"
    /\ pc = "prompt"
    /\ \E selectedIndexes \in SUBSET (1..Len(loc.options)) :
          /\ Prompted("Select options", loc.options, selectedIndexes)
          /\ loc' = [loc EXCEPT !.promptResult = PromptResult(loc.options, selectedIndexes),
                                !.worktreeIndexes = selectedIndexes]
    /\ pc' = "done"
    /\ UNCHANGED <<world, caller, run, calls, hist>>

\* deleteWorktree and ignoreWorktree, as far as their first executor call
MutateCalls(selected, deselected) ==
    [ i \in 1..Len(selected) |->
        Call("worktree-remove", selected[i], << >>, TRUE, "mutateWorktrees") ]
    \o
    [ i \in 1..Len(deselected) |->
        Call("enable-worktreeconfig", deselected[i], << >>, FALSE, "mutateWorktrees") ]

PromptWorktrees ==
    /\ pc = "prompt_wt"
    /\ LET options == WorktreeOptions(loc.removableWorktrees) IN
       \E selectedIndexes \in SUBSET (1..Len(options)) :
          /\ Prompted("Which worktrees do you want to clean up?", options, selectedIndexes)
          /\ LET r == PromptResult(options, selectedIndexes) IN
             /\ loc' = [loc EXCEPT !.selectedWorktrees = r.selected,
                                   !.deselectedWorktrees = r.deselected,
                                   !.worktreeIndexes = selectedIndexes]
             /\ calls' = calls \o MutateCalls(r.selected, r.deselected)
    /\ pc' = "mutate_wt"
    /\ UNCHANGED <<world, caller, run, hist>>

\* ignoreWorktree: `git config set extensions.worktreeconfig true && git -C path
\* config set --worktree cleanup.ignore true` -- the second command starts when
\* the first has succeeded
IgnoreWorktreeSecond ==
    \E i \in Idx("mutateWorktrees", "enable-worktreeconfig") :
       /\ calls[i].st = "ok"
       /\ IdxAt("mutateWorktrees", "set-ignore", calls[i].path) = {}
       /\ calls' = Append(calls, Call("set-ignore", calls[i].path, << >>, FALSE, "mutateWorktrees"))
       /\ UNCHANGED <<world, caller, pc, run, widget, loc, hist>>

\* faulty variant: the removals and ignore-markings are not awaited
MutateWorktreesNoAwait ==
    /\ pc = "mutate_wt"
    /\ pc' = "grb_start"
    /\ UNCHANGED <<world, caller, run, calls, widget, loc, hist>>

\* await Promise.all([...deleteWorktree, ...ignoreWorktree])
MutateWorktrees ==
    /\ pc = "mutate_wt"
    /\ LET removes == Idx("mutateWorktrees", "worktree-remove")
           enables == Idx("mutateWorktrees", "enable-worktreeconfig")
           sets == Idx("mutateWorktrees", "set-ignore")
       IN  \/ /\ AnyFailed(removes \cup enables \cup sets)
              /\ pc' = "failed"
           \/ /\ AllOk(removes \cup enables \cup sets)
              /\ \A i \in enables : IdxAt("mutateWorktrees", "set-ignore", calls[i].path) # {}
              /\ pc' = "grb_start"
    /\ UNCHANGED <<world, caller, run, calls, widget, loc, hist>>

\* getRemovableBranches: both queries are issued together
GrbStart ==
    /\ pc = "grb_start"
    /\ calls' = calls \o << Call("branch-list", NoPath, << >>, FALSE, "classifyBranches"),
                            Call("get-ignored-branches", NoPath, << >>, FALSE, "classifyBranches") >>
    /\ pc' = "grb_queries"
    /\ UNCHANGED <<world, caller, run, widget, loc, hist>>

GrbQueries ==
    /\ pc = "grb_queries"
    /\ \/ /\ AnyFailed(Idx("classifyBranches", "branch-list"))
          /\ pc' = "failed"
          /\ UNCHANGED loc
       \/ /\ AllOk(Idx("classifyBranches", "branch-list"))
          /\ AllDone(Idx("classifyBranches", "get-ignored-branches"))
          /\ loc' = [loc EXCEPT !.removableBranches =
                        GetRemovableBranchesResult(
                            TheCall("classifyBranches", "branch-list").out,
                            GetIgnoredBranchesResult(
                                TheCall("classifyBranches", "get-ignored-branches").out))]
          /\ pc' = IF IsCleanup THEN "prompt_br" ELSE "done"
    /\ UNCHANGED <<world, caller, run, calls, widget, hist>>

\* faulty variant: only the branches the user unchecked are kept for persisting
PromptBranchesDeselected ==
    /\ pc = "prompt_br"
    /\ LET options == BranchOptions(loc.removableBranches) IN
       \E selectedIndexes \in SUBSET (1..Len(options)) :
          /\ Prompted("Which branches do you want to clean up?", options, selectedIndexes)
          /\ LET r == PromptResult(options, selectedIndexes) IN
             loc' = [loc EXCEPT !.names = r.selected, !.unselectedBranches = r.deselected,
                                !.branchIndexes = selectedIndexes]
    /\ pc' = "db_start"
    /\ UNCHANGED <<world, caller, run, calls, hist>>

\* faulty variant: the names the user selected are kept for persisting
PromptBranchesPersistSelected ==
    /\ pc = "prompt_br"
    /\ LET options == BranchOptions(loc.removableBranches) IN
       \E selectedIndexes \in SUBSET (1..Len(options)) :
          /\ Prompted("Which branches do you want to clean up?", options, selectedIndexes)
          /\ LET r == PromptResult(options, selectedIndexes) IN
             loc' = [loc EXCEPT !.names = r.selected, !.unselectedBranches = r.selected,
                                !.branchIndexes = selectedIndexes]
    /\ pc' = "db_start"
    /\ UNCHANGED <<world, caller, run, calls, hist>>

PromptBranches ==
    /\ pc = "prompt_br"
    /\ LET options == BranchOptions(loc.removableBranches) IN
       \E selectedIndexes \in SUBSET (1..Len(options)) :
          /\ Prompted("Which branches do you want to clean up?", options, selectedIndexes)
          /\ LET r == PromptResult(options, selectedIndexes) IN
             loc' = [loc EXCEPT !.names = r.selected, !.unselectedBranches = r.unselected,
                                !.branchIndexes = selectedIndexes]
    /\ pc' = "db_start"
    /\ UNCHANGED <<world, caller, run, calls, hist>>

\* where control goes when deleteBranches returns
AfterDeleteBranches == IF IsCleanup THEN "set_ignored" ELSE "done"

\* faulty variant: no empty check
DbStartNoCheck ==
    /\ pc = "db_start"
    /\ calls' = Append(calls, Call("worktree-list", NoPath, << >>, FALSE, "mutateBranches"))
    /\ pc' = "db_list"
    /\ UNCHANGED <<world, caller, run, widget, loc, hist>>

\* deleteBranches: the empty check, then getBranchWorktrees' listing query
DbStart ==
    /\ pc = "db_start"
    /\ IF Len(loc.names) = 0
       THEN /\ pc' = AfterDeleteBranches
            /\ UNCHANGED calls
       ELSE /\ calls' = Append(calls, Call("worktree-list", NoPath, << >>, FALSE, "mutateBranches"))
            /\ pc' = "db_list"
    /\ UNCHANGED <<world, caller, run, widget, loc, hist>>

\* faulty variant: only the worktree of the first name is detached
DetachingFirstOnly(names, branchWorktrees) ==
    MapNotNullish(SubSeq(names, 1, 1), LAMBDA branch : MapGet(branchWorktrees, branch))

\* mapNotNullish(branches, (branch) => branchWorktrees.get(branch))
Detaching(names, branchWorktrees) ==
    MapNotNullish(names, LAMBDA branch : MapGet(branchWorktrees, branch))

DetachCalls(detaching) ==
    [ i \in 1..Len(detaching) |-> Call("switch-detach", detaching[i], << >>, TRUE, "mutateBranches") ]

\* faulty variant: the worktrees of all removable branches are detached
DbListAllRemovable ==
    /\ pc = "db_list"
    /\ AllDone(Idx("mutateBranches", "worktree-list"))
    /\ IF AnyFailed(Idx("mutateBranches", "worktree-list"))
       THEN /\ pc' = "failed"
            /\ UNCHANGED <<calls, loc>>
       ELSE LET detaching == Detaching(
                    [ i \in 1..Len(loc.removableBranches) |-> loc.removableBranches[i].name ],
                    GetBranchWorktreesResult(TheCall("mutateBranches", "worktree-list").out))
            IN  /\ loc' = [loc EXCEPT !.detaching = detaching]
                /\ calls' = calls \o DetachCalls(detaching)
                /\ pc' = "db_detach"
    /\ UNCHANGED <<world, caller, run, widget, hist>>

\* faulty variant: the map is built from the listing read when the worktrees
\* were classified, before the removals
DbListStale ==
    /\ pc = "db_list"
    /\ AllDone(Idx("mutateBranches", "worktree-list"))
    /\ IF AnyFailed(Idx("mutateBranches", "worktree-list"))
       THEN /\ pc' = "failed"
            /\ UNCHANGED <<calls, loc>>
       ELSE LET phase == IF Idx("classifyWorktrees", "worktree-list") # {}
                         THEN "classifyWorktrees" ELSE "mutateBranches"
                detaching == Detaching(loc.names,
                    GetBranchWorktreesResult(TheCall(phase, "worktree-list").out))
            IN  /\ loc' = [loc EXCEPT !.detaching = detaching]
                /\ calls' = calls \o DetachCalls(detaching)
                /\ pc' = "db_detach"
    /\ UNCHANGED <<world, caller, run, widget, hist>>

DbList ==
    /\ pc = "db_list"
    /\ AllDone(Idx("mutateBranches", "worktree-list"))
    /\ IF AnyFailed(Idx("mutateBranches", "worktree-list"))
       THEN /\ pc' = "failed"
            /\ UNCHANGED <<calls, loc>>
       ELSE LET detaching == Detaching(loc.names,
                    GetBranchWorktreesResult(TheCall("mutateBranches", "worktree-list").out))
            IN  /\ loc' = [loc EXCEPT !.detaching = detaching]
                /\ calls' = calls \o DetachCalls(detaching)
                /\ pc' = "db_detach"
    /\ UNCHANGED <<world, caller, run, widget, hist>>

\* faulty variant: only the first name is passed
DeleteArgsFirst(names) == SubSeq(names, 1, 1)

\* the arguments of the one delete call
DeleteArgs(names) == names

\* faulty variant: the delete call is issued without awaiting the detaches
DbDetachNoAwait ==
    /\ pc = "db_detach"
    /\ calls' = Append(calls,
           Call("branch-D", NoPath, DeleteArgs(loc.names), TRUE, "mutateBranches"))
    /\ pc' = "db_delete"
    /\ UNCHANGED <<world, caller, run, widget, loc, hist>>

\* faulty variant: one delete call per branch
DbDetachPerBranch ==
    /\ pc = "db_detach"
    /\ \/ /\ AnyFailed(Idx("mutateBranches", "switch-detach"))
          /\ pc' = "failed"
          /\ UNCHANGED calls
       \/ /\ AllOk(Idx("mutateBranches", "switch-detach"))
          /\ calls' = calls \o [ i \in 1..Len(loc.names) |->
                 Call("branch-D", NoPath, <<loc.names[i]>>, TRUE, "mutateBranches") ]
          /\ pc' = "db_delete"
    /\ UNCHANGED <<world, caller, run, widget, loc, hist>>

\* await Promise.all(detaching...), then the delete call
DbDetach ==
    /\ pc = "db_detach"
    /\ \/ /\ AnyFailed(Idx("mutateBranches", "switch-detach"))
          /\ pc' = "failed"
          /\ UNCHANGED calls
       \/ /\ AllOk(Idx("mutateBranches", "switch-detach"))
          /\ calls' = Append(calls,
                 Call("branch-D", NoPath, DeleteArgs(loc.names), TRUE, "mutateBranches"))
          /\ pc' = "db_delete"
    /\ UNCHANGED <<world, caller, run, widget, loc, hist>>

\* faulty variant: a failed delete is swallowed
DbDeleteIgnoreFailure ==
    /\ pc = "db_delete"
    /\ AllDone(Idx("mutateBranches", "branch-D"))
    /\ pc' = AfterDeleteBranches
    /\ UNCHANGED <<world, caller, run, calls, widget, loc, hist>>

DbDelete ==
    /\ pc = "db_delete"
    /\ AllDone(Idx("mutateBranches", "branch-D"))
    /\ pc' = IF AnyFailed(Idx("mutateBranches", "branch-D")) THEN "failed" ELSE AfterDeleteBranches
    /\ UNCHANGED <<world, caller, run, calls, widget, loc, hist>>

\* faulty variant: nothing is written for an empty list
SetIgnoredBranchesSkipEmpty ==
    /\ pc = "set_ignored"
    /\ IF loc.unselectedBranches = << >>
       THEN calls' = calls /\ pc' = "done"
       ELSE /\ calls' = Append(calls, Call("set-ignored-branches", NoPath,
                                           JoinSpace(loc.unselectedBranches), FALSE, "persist"))
            /\ pc' = "persist"
    /\ UNCHANGED <<world, caller, run, widget, loc, hist>>

\* setIgnoredBranches(unselectedBranches)
SetIgnoredBranches ==
    /\ pc = "set_ignored"
    /\ calls' = Append(calls, Call("set-ignored-branches", NoPath,
                                   JoinSpace(loc.unselectedBranches), FALSE, "persist"))
    /\ pc' = "persist"
    /\ UNCHANGED <<world, caller, run, widget, loc, hist>>

Persisted ==
    /\ pc = "persist"
    /\ AllDone(Idx("persist", "set-ignored-branches"))
    /\ pc' = IF AnyFailed(Idx("persist", "set-ignored-branches")) THEN "failed" ELSE "done"
    /\ UNCHANGED <<world, caller, run, calls, widget, loc, hist>>

\* getBranchWorktrees, called on its own: the listing query is issued
GbwStart ==
    /\ pc = "gbw_start"
    /\ calls' = Append(calls, Call("worktree-list", NoPath, << >>, FALSE, "branchWorktrees"))
    /\ pc' = "gbw_list"
    /\ UNCHANGED <<world, caller, run, widget, loc, hist>>

\* the executor of the unit test answers the listing query with the text the
\* test prepared (loc.sections)
MockListExits(i) ==
    /\ calls[i].st = "running"
    /\ calls[i].cmd = "worktree-list"
    /\ calls[i].phase = "branchWorktrees"
    /\ Finish(i, "ok", loc.sections)
    /\ UNCHANGED <<world, caller, pc, run, widget, loc, hist>>

ExecMockList == \E i \in 1..Len(calls) : MockListExits(i)

GbwList ==
    /\ pc = "gbw_list"
    /\ AllOk(Idx("branchWorktrees", "worktree-list"))
    /\ loc' = [loc EXCEPT !.branchWorktrees =
                  GetBranchWorktreesResult(TheCall("branchWorktrees", "worktree-list").out)]
    /\ pc' = "done"
    /\ UNCHANGED <<world, caller, run, calls, widget, hist>>

\* getIgnoredBranches, called on its own: the config query is issued
GibStart ==
    /\ pc = "gib_start"
    /\ calls' = Append(calls, Call("get-ignored-branches", NoPath, << >>, FALSE, "readIgnored"))
    /\ pc' = "gib_query"
    /\ UNCHANGED <<world, caller, run, widget, loc, hist>>

\* .noThrow().text(): the text is taken whatever the exit code
GibQuery ==
    /\ pc = "gib_query"
    /\ AllDone(Idx("readIgnored", "get-ignored-branches"))
    /\ loc' = [loc EXCEPT !.ignoredBranches =
                  GetIgnoredBranchesResult(TheCall("readIgnored", "get-ignored-branches").out)]
    /\ pc' = "done"
    /\ UNCHANGED <<world, caller, run, calls, widget, hist>>

\* setIgnoredBranches has returned and its caller goes on to getIgnoredBranches
ReadBack ==
    /\ caller = "setIgnoredBranches"
    /\ pc = "done"
    /\ caller' = "getIgnoredBranches"
    /\ pc' = "gib_start"
    /\ UNCHANGED <<world, run, calls, widget, loc, hist>>

----------------------------------------------------------------------------
\* Names of branches and paths of worktrees

main == <<"m", "a", "i", "n">>

bx == <<"x">>

by == <<"y">>

bz == <<"z">>

bxBackup == bx \o BACKUP

PRIMARY == <<"/", "r">>

W1 == <<"/", "w", "1">>

W2 == <<"/", "w", "2">>

AllPaths == {PRIMARY, W1, W2}

----------------------------------------------------------------------------
\* Running the flow again

MaxRuns == 2

\* what the user left unselected in the run that just ended
LeftWorktrees ==
    { loc.removableWorktrees[i].path :
        i \in (1..Len(loc.removableWorktrees)) \ loc.worktreeIndexes }

LeftBranches ==
    { loc.removableBranches[i].name :
        i \in (1..Len(loc.removableBranches)) \ loc.branchIndexes }

\* the options a prompt offers checked
DefaultIndexes(options) == { i \in 1..Len(options) : options[i].selected }

\* the user left both prompts of the run as they were offered
DefaultsAccepted ==
    /\ loc.worktreeIndexes = DefaultIndexes(WorktreeOptions(loc.removableWorktrees))
    /\ loc.branchIndexes = DefaultIndexes(BranchOptions(loc.removableBranches))

\* what is remembered of a run when the next one starts
RunHistory ==
    [hist EXCEPT !.leftWorktrees = LeftWorktrees,
                 !.leftBranches = LeftBranches,
                 !.ignoredWorktrees = @ \cup LeftWorktrees,
                 !.ignoredBranches = @ \cup LeftBranches,
                 !.persisted = ignoredCfg,
                 !.upstreamChanged = (remoteDeleted # {})]

\* cleanup is run again, `history` being what is remembered of the run
StartNextRun(history) ==
    /\ IsCleanup
    /\ pc = "done"
    /\ run < MaxRuns
    /\ run' = run + 1
    /\ pc' = "start"
    /\ calls' = << >>
    /\ widget' = << >>
    /\ loc' = EmptyLoc
    /\ hist' = history
    /\ UNCHANGED <<world, caller>>

NextRun == StartNextRun(RunHistory)

\* the next run, remembering also whether the user kept the defaults and
\* which branches were deleted
NextRunRecorded ==
    StartNextRun([RunHistory EXCEPT !.defaults = DefaultsAccepted,
                                    !.deleted = { loc.names[i] : i \in 1..Len(loc.names) }])

\* Between two runs a branch's upstream may be deleted (its pull request was
\* merged); the next fetch finds out.
UpstreamDeleted ==
    /\ IsCleanup
    /\ pc = "done"
    /\ run < MaxRuns
    /\ remoteDeleted = {}
    /\ \E i \in 1..Len(branches) :
          /\ branches[i].track = NONE
          /\ branches[i].name # main
          /\ remoteDeleted' = {branches[i].name}
    /\ hist' = [hist EXCEPT !.upstreamChanged = TRUE]
    /\ UNCHANGED <<worktrees, branches, ignoredCfg, wtIgnore, worktreeConfig,
                   caller, pc, run, calls, widget, loc>>

----------------------------------------------------------------------------
\* Repositories the flow is run on

Branch(name, track) == [name |-> name, track |-> track]

Worktree(path, branch) == [path |-> path, branch |-> branch]

\* main, x, optionally x-backup, optionally y; x and y with or without a
\* deleted upstream
FlowBranches ==
    { <<Branch(main, NONE), Branch(bx, tx)>> \o xb \o y :
        tx \in {NONE, GONE},
        xb \in {<< >>, <<Branch(bxBackup, NONE)>>},
        y \in {<< >>} \cup { <<Branch(by, ty)>> : ty \in {NONE, GONE} } }

\* the primary worktree on main or on x; optionally a worktree on x or
\* detached; optionally a worktree on y; no branch is checked out twice
FlowWorktrees(brs) ==
    { wts \in { <<Worktree(PRIMARY, p)>> \o w1 \o w2 :
                  p \in {main, bx},
                  w1 \in {<< >>, <<Worktree(W1, bx)>>, <<Worktree(W1, NoBranch)>>},
                  w2 \in {<< >>} \cup (IF by \in BranchNames(brs)
                                       THEN {<<Worktree(W2, by)>>} ELSE {}) } :
        \A i, j \in 1..Len(wts) :
            (i # j /\ wts[i].branch # NoBranch) => wts[i].branch # wts[j].branch }

\* the flag of a worktree that exists may have been set by an earlier run
FlowIgnoreFlags(wts) ==
    { f \in [AllPaths -> {"absent", "true"}] :
        \A p \in AllPaths : f[p] = "true" => p \in Paths(wts) \ {PRIMARY} }

FlowIgnoredCfg ==
    { [set |-> FALSE, val |-> << >>],
      [set |-> TRUE, val |-> bxBackup],
      [set |-> TRUE, val |-> JoinSpace(<<by, bz>>)] }

NoHist ==
    [leftWorktrees |-> {}, leftBranches |-> {}, ignoredWorktrees |-> {},
     ignoredBranches |-> {}, persisted |-> [set |-> FALSE, val |-> << >>],
     upstreamChanged |-> FALSE, defaults |-> FALSE, deleted |-> {}]

Init ==
    /\ branches \in FlowBranches
    /\ worktrees \in FlowWorktrees(branches)
    /\ wtIgnore \in FlowIgnoreFlags(worktrees)
    /\ worktreeConfig = (\E p \in AllPaths : wtIgnore[p] = "true")
    /\ ignoredCfg \in FlowIgnoredCfg
    /\ remoteDeleted = {}
    /\ caller = "cleanup"
    /\ pc = "start"
    /\ run = 1
    /\ calls = << >>
    /\ widget = << >>
    /\ loc = EmptyLoc
    /\ hist = [NoHist EXCEPT !.ignoredWorktrees = { p \in AllPaths : wtIgnore[p] = "true" },
                             !.ignoredBranches = SeqToSet(GetIgnoredBranchesResult(ignoredCfg.val)),
                             !.persisted = ignoredCfg]

Next ==
    \/ Fetch
    \/ AfterFetch
    \/ GrwStart
    \/ GrwList
    \/ GrwQueries
    \/ PromptWorktrees
    \/ IgnoreWorktreeSecond
    \/ MutateWorktrees
    \/ GrbStart
    \/ GrbQueries
    \/ PromptBranches
    \/ DbStart
    \/ DbList
    \/ DbDetach
    \/ DbDelete
    \/ SetIgnoredBranches
    \/ Persisted
    \/ NextRun
    \/ UpstreamDeleted
    \/ ExecQuery
    \/ ExecFetch
    \/ ExecRemove
    \/ ExecDetach
    \/ ExecBranchDelete
    \/ ExecConfigSet

Spec == Init /\ [][Next]_vars

----------------------------------------------------------------------------
\* deleteBranches called on its own, as the unit tests call it

MaxNames == 2

DeleteNames == {main, bx, by, bz}

RECURSIVE SeqsUpTo(_, _)
SeqsUpTo(S, n) ==
    IF n = 0 THEN { << >> }
    ELSE SeqsUpTo(S, n - 1) \cup
         { Append(q, e) : q \in { r \in SeqsUpTo(S, n - 1) : Len(r) = n - 1 }, e \in S }

InitDelete ==
    /\ branches \in FlowBranches
    /\ worktrees \in FlowWorktrees(branches)
    /\ wtIgnore = [p \in AllPaths |-> "absent"]
    /\ worktreeConfig = FALSE
    /\ ignoredCfg = [set |-> FALSE, val |-> << >>]
    /\ remoteDeleted = {}
    /\ caller = "deleteBranches"
    /\ pc = "db_start"
    /\ run = 1
    /\ calls = << >>
    /\ widget = << >>
    /\ \E names \in SeqsUpTo(DeleteNames, MaxNames) : loc = [EmptyLoc EXCEPT !.names = names]
    /\ hist = NoHist

NextDelete ==
    \/ DbStart
    \/ DbList
    \/ DbDetach
    \/ DbDelete
    \/ ExecQuery
    \/ ExecDetach
    \/ ExecBranchDelete

SpecDelete == InitDelete /\ [][NextDelete]_vars

----------------------------------------------------------------------------
\* deleteBranches

Detaches == Idx("mutateBranches", "switch-detach")

Deletes == Idx("mutateBranches", "branch-D")

\* C1: when the branch delete call is issued, every detach call deleteBranches
\* issued was issued before it and has completed successfully; so a delete
\* call is never issued while a detach is running or after one has failed.
C1_DetachBeforeDelete ==
    \A d \in Deletes : \A t \in Detaches : t < d /\ calls[t].st = "ok"

\* the delete call has been issued after two detaches
C1_Witness ==
    /\ Deletes # {}
    /\ Cardinality(Detaches) = 2

\* C5: deleteBranches([]) issues no executor call at all.
C5_EmptyIsNoOp == (caller = "deleteBranches" /\ loc.names = << >>) => calls = << >>

\* deleteBranches([]) has returned
C5_Witness == caller = "deleteBranches" /\ loc.names = << >> /\ pc = "done"

\* C6: deleteBranches(names) with names non-empty never issues more than one
\* branch delete call, a delete call names exactly names in the given order,
\* and when deleteBranches returns it has issued one.
C6_OneBatchedDelete ==
    (caller = "deleteBranches" /\ loc.names # << >>) =>
        /\ Cardinality(Deletes) <= 1
        /\ \A d \in Deletes : calls[d].arg = loc.names
        /\ pc = "done" => Cardinality(Deletes) = 1

\* two branches were deleted by one call
C6_Witness ==
    /\ caller = "deleteBranches"
    /\ pc = "done"
    /\ Len(loc.names) = 2
    /\ loc.names[1] # loc.names[2]
    /\ \E d \in Deletes : calls[d].st = "ok"

----------------------------------------------------------------------------
\* getRemovableBranches called on its own, on branch listings in any order

MaxBranches == 3

bxBackup2 == bx \o BACKUP \o <<"2">>

bxBackupBranch == bx \o BACKUP \o <<"-", "b", "r">>

bxBackupBackup == bx \o BACKUP \o BACKUP

byBackup == by \o BACKUP

ListedNames == {bx, by, bxBackup, bxBackup2, bxBackupBranch, bxBackupBackup, byBackup}

Tracks == {NONE, GONE, AHEAD}

\* listings of up to MaxBranches branches with distinct names
Listings ==
    { l \in SeqsUpTo({ Branch(n, t) : n \in ListedNames, t \in Tracks }, MaxBranches) :
        \A i, j \in 1..Len(l) : i # j => l[i].name # l[j].name }

ListedIgnoredCfg ==
    { [set |-> FALSE, val |-> << >>],
      [set |-> TRUE, val |-> JoinSpace(<<bxBackup, byBackup>>)] }

InitBranches ==
    /\ branches \in Listings
    /\ worktrees = <<Worktree(PRIMARY, NoBranch)>>
    /\ wtIgnore = [p \in AllPaths |-> "absent"]
    /\ worktreeConfig = FALSE
    /\ ignoredCfg \in ListedIgnoredCfg
    /\ remoteDeleted = {}
    /\ caller = "getRemovableBranches"
    /\ pc = "grb_start"
    /\ run = 1
    /\ calls = << >>
    /\ widget = << >>
    /\ loc = EmptyLoc
    /\ hist = NoHist

NextBranches ==
    \/ GrbStart
    \/ GrbQueries
    \/ ExecQuery

SpecBranches == InitBranches /\ [][NextBranches]_vars

----------------------------------------------------------------------------
\* getRemovableBranches

\* name is <parent>-backup or <parent>-backup<digits>
IsBackupOf(name, parent) ==
    /\ Len(parent) >= 1
    /\ Len(name) >= Len(parent) + Len(BACKUP)
    /\ SubSeq(name, 1, Len(parent)) = parent
    /\ SubSeq(name, Len(parent) + 1, Len(parent) + Len(BACKUP)) = BACKUP
    /\ \A j \in (Len(parent) + Len(BACKUP) + 1)..Len(name) : name[j] \in DIGITS

Prefixes(name) == { SubSeq(name, 1, k) : k \in 1..Len(name) }

GoneNames(brs) == { brs[i].name : i \in { j \in 1..Len(brs) : brs[j].track = GONE } }

\* the branches the backup rules of the documentation make removable
ShouldBeRemovable(brs) ==
    { n \in BranchNames(brs) :
        \/ n \in GoneNames(brs)
        \/ \E parent \in Prefixes(n) :
              /\ IsBackupOf(n, parent)
              /\ \/ parent \in GoneNames(brs)
                 \/ parent \notin BranchNames(brs) }

ResultNames == { loc.removableBranches[i].name : i \in 1..Len(loc.removableBranches) }

Returned == caller = "getRemovableBranches" /\ pc = "done"

\* C2: getRemovableBranches returns a branch if and only if it is gone, or it
\* is a backup of a gone branch, or it is a backup of a name that is not a
\* listed branch.
C2_RemovableBranches == Returned => ResultNames = ShouldBeRemovable(branches)

\* the same, on listings whose tracking annotations are all empty or [gone]
C2_OnGoneOrEmptyAnnotations ==
    (Returned /\ \A i \in 1..Len(branches) : branches[i].track \in {NONE, GONE})
        => ResultNames = ShouldBeRemovable(branches)

----------------------------------------------------------------------------
\* getWorktrees and getRemovableWorktrees, as the flow runs them

\* the repository is as the worktree queries saw it
Classified == IsCleanup /\ pc = "prompt_wt"

RemovablePaths == [ i \in 1..Len(loc.removableWorktrees) |-> loc.removableWorktrees[i].path ]

ListedPaths == [ i \in 1..Len(worktrees) |-> worktrees[i].path ]

\* the worktree at index i has a branch checked out whose upstream is gone
OnGoneBranch(i) ==
    /\ worktrees[i].branch # NoBranch
    /\ worktrees[i].branch \in GoneNames(branches)

\* the output of the tracking query run in the worktree at `path`
TrackOutput(path) == calls[CHOOSE i \in IdxAt("classifyWorktrees", "track", path) : TRUE].out

HasGoneHeadLine(lines) ==
    \E k \in 1..Len(lines) : lines[k] = <<"[", "g", "o", "n", "e", "]", " ", "*">>

\* C3: getRemovableWorktrees returns exactly the non-primary worktrees whose
\* tracking query printed a line "[gone] *", which are those whose checked-out
\* branch is gone, in listing order; every other worktree is absent.
C3_RemovableWorktrees ==
    Classified =>
        /\ RemovablePaths =
             Filter(ListedPaths, { i \in 2..Len(worktrees) : HasGoneHeadLine(TrackOutput(ListedPaths[i])) })
        /\ RemovablePaths = Filter(ListedPaths, { i \in 2..Len(worktrees) : OnGoneBranch(i) })

\* one worktree is returned; another is not although a branch that is not its
\* current one is gone, with and without a branch of its own
C3_Witness ==
    /\ Classified
    /\ RemovablePaths = <<W2>>
    /\ W1 \in Paths(worktrees)
    /\ \E k \in 1..Len(TrackOutput(W1)) :
          /\ Len(TrackOutput(W1)[k]) >= 6
          /\ SubSeq(TrackOutput(W1)[k], 1, 6) = GONE

\* C4: getWorktrees returns every listed worktree but the first, detached ones
\* included, in listing order; the primary worktree is never classified,
\* returned as removable, offered at the prompt or removed.
C4_PrimaryExcluded ==
    /\ (IsCleanup /\ pc \in {"grw_queries", "prompt_wt"}) => loc.wtPaths = Tail(ListedPaths)
    /\ IsCleanup =>
         /\ PRIMARY \notin SeqToSet(loc.wtPaths)
         /\ PRIMARY \notin SeqToSet(RemovablePaths)
         /\ \A k \in 1..Len(widget) : \A o \in 1..Len(widget[k].options) :
                widget[k].options[o].text # PRIMARY
         /\ \A i \in 1..Len(calls) :
                calls[i].cmd \in {"track", "get-ignore", "worktree-remove", "enable-worktreeconfig",
                                  "set-ignore"} => calls[i].path # PRIMARY

\* the primary worktree is on a gone branch; the two others, one of them
\* detached, were returned and one of them has been removed
C4_Witness ==
    /\ IsCleanup
    /\ run = 1
    /\ worktrees[1] = Worktree(PRIMARY, bx)
    /\ bx \in GoneNames(branches)
    /\ loc.wtPaths = <<W1, W2>>
    /\ \E i \in Idx("mutateWorktrees", "worktree-remove") : calls[i].st = "ok"
    /\ W1 \in Paths(worktrees) /\ worktrees[IndexOfPath(worktrees, W1)].branch = NoBranch

----------------------------------------------------------------------------
\* The flow: prompts

PhasesSeen == { calls[i].phase : i \in 1..Len(calls) }

\* the worktree prompt of this run has returned
PastWorktreePrompt ==
    /\ IsCleanup
    /\ \/ pc \in {"mutate_wt", "grb_start", "grb_queries", "prompt_br", "db_start", "db_list",
                  "db_detach", "db_delete", "set_ignored", "persist", "done"}
       \/ /\ pc = "failed"
          /\ PhasesSeen \cap {"mutateWorktrees", "classifyBranches", "mutateBranches", "persist"} # {}

\* the branch prompt of this run has returned
PastBranchPrompt ==
    /\ IsCleanup
    /\ \/ pc \in {"db_start", "db_list", "db_detach", "db_delete", "set_ignored", "persist", "done"}
       \/ /\ pc = "failed"
          /\ PhasesSeen \cap {"mutateBranches", "persist"} # {}

WORKTREES_MESSAGE == "Which worktrees do you want to clean up?"

BRANCHES_MESSAGE == "Which branches do you want to clean up?"

Asked(message) == \E k \in 1..Len(widget) : widget[k].message = message

\* C7: the widget is never asked with an empty option list; with no candidate
\* the prompt returns without asking, with empty results, and the flow goes on.
C7_NoEmptyPrompt ==
    /\ \A k \in 1..Len(widget) : Len(widget[k].options) > 0
    /\ (PastWorktreePrompt /\ loc.removableWorktrees = << >>) =>
          /\ ~Asked(WORKTREES_MESSAGE)
          /\ loc.selectedWorktrees = << >> /\ loc.deselectedWorktrees = << >>
    /\ (PastBranchPrompt /\ loc.removableBranches = << >>) =>
          /\ ~Asked(BRANCHES_MESSAGE)
          /\ loc.names = << >> /\ loc.unselectedBranches = << >>
    /\ (IsCleanup /\ pc = "prompt_wt" /\ loc.removableWorktrees = << >>) => ENABLED PromptWorktrees
    /\ (IsCleanup /\ pc = "prompt_br" /\ loc.removableBranches = << >>) => ENABLED PromptBranches

\* a run ended without the widget having been asked at either prompt
C7_Witness ==
    /\ IsCleanup
    /\ pc = "done"
    /\ loc.removableWorktrees = << >>
    /\ loc.removableBranches = << >>
    /\ widget = << >>

----------------------------------------------------------------------------
\* The flow: worktree mutation

Removes(path) == IdxAt("mutateWorktrees", "worktree-remove", path)

Marks(path) == IdxAt("mutateWorktrees", "enable-worktreeconfig", path)

FlagSets(path) == IdxAt("mutateWorktrees", "set-ignore", path)

WorktreePhaseDone == PastWorktreePrompt /\ pc \notin {"mutate_wt", "failed"}

\* C8: each candidate worktree gets one treatment: selected, one forced
\* removal; unselected and not ignored before, one ignoreWorktree; unselected
\* and ignored before, no call. No other worktree gets a call.
C8_OneTreatment ==
    PastWorktreePrompt =>
        /\ \A i \in 1..Len(loc.removableWorktrees) :
              LET w == loc.removableWorktrees[i]
                  sel == i \in loc.worktreeIndexes
              IN  /\ sel =>
                        /\ Cardinality(Removes(w.path)) = 1
                        /\ Marks(w.path) = {} /\ FlagSets(w.path) = {}
                        /\ WorktreePhaseDone => w.path \notin Paths(worktrees)
                  /\ (~sel /\ ~w.ignored) =>
                        /\ Removes(w.path) = {}
                        /\ Cardinality(Marks(w.path)) = 1
                        /\ Cardinality(FlagSets(w.path)) <= 1
                        /\ WorktreePhaseDone =>
                              /\ Cardinality(FlagSets(w.path)) = 1
                              /\ wtIgnore[w.path] = "true"
                  /\ (~sel /\ w.ignored) =>
                        Removes(w.path) = {} /\ Marks(w.path) = {} /\ FlagSets(w.path) = {}
        /\ \A i \in Idx("mutateWorktrees", "worktree-remove")
                    \cup Idx("mutateWorktrees", "enable-worktreeconfig")
                    \cup Idx("mutateWorktrees", "set-ignore") :
              calls[i].path \in SeqToSet(RemovablePaths)

\* of two candidates one was removed and the other, left unselected, was marked
C8_Witness ==
    /\ WorktreePhaseDone
    /\ Len(loc.removableWorktrees) = 2
    /\ \E p, q \in SeqToSet(RemovablePaths) :
          /\ Removes(p) # {}
          /\ FlagSets(q) # {}

\* a candidate ignored by an earlier run was left unselected and got no call
C8_WitnessIgnored ==
    /\ WorktreePhaseDone
    /\ \E i \in 1..Len(loc.removableWorktrees) :
          /\ loc.removableWorktrees[i].ignored
          /\ i \notin loc.worktreeIndexes

----------------------------------------------------------------------------
\* The flow: what is remembered

\* the names the user left unselected at the branch prompt, in candidate order
LeftBranchSeq ==
    LET kept == Filter(loc.removableBranches,
                       (1..Len(loc.removableBranches)) \ loc.branchIndexes)
    IN  [ i \in 1..Len(kept) |-> kept[i].name ]

Tokens(text) == IF text = << >> THEN {} ELSE SeqToSet(SplitSpace(text))

\* C9: when a run ends, cleanup.ignoredBranches is the unselected removable
\* branches in candidate order joined by single spaces, and nothing else.
C9_PersistedIgnored ==
    (IsCleanup /\ pc = "done") =>
        /\ ignoredCfg.set
        /\ ignoredCfg.val = JoinSpace(LeftBranchSeq)
        /\ Tokens(ignoredCfg.val) = LeftBranches

\* two names were written, and a name stored before is no longer stored
C9_Witness ==
    /\ IsCleanup /\ pc = "done"
    /\ Len(LeftBranchSeq) = 2
    /\ \E n \in Tokens(hist.persisted.val) : n \notin Tokens(ignoredCfg.val)

\* a name stored before was selected and deleted, and is no longer stored
C9_WitnessSelected ==
    /\ IsCleanup /\ pc = "done"
    /\ \E n \in Tokens(hist.persisted.val) :
          /\ n \in SeqToSet(loc.names)
          /\ n \notin Tokens(ignoredCfg.val)

\* C10: what the user left unselected in the run before is offered unchecked;
\* what was never ignored is offered checked.
C10_DefaultsAcrossRuns ==
    IsCleanup =>
      \A k \in 1..Len(widget) : \A o \in 1..Len(widget[k].options) :
         LET opt == widget[k].options[o]
             left == IF widget[k].message = WORKTREES_MESSAGE
                     THEN hist.leftWorktrees ELSE hist.leftBranches
             ignoredBefore == IF widget[k].message = WORKTREES_MESSAGE
                              THEN hist.ignoredWorktrees ELSE hist.ignoredBranches
         IN  /\ (run > 1 /\ opt.text \in left) => ~opt.selected
             /\ opt.text \notin ignoredBefore => opt.selected

\* the second run offers a worktree and a branch left unselected in the first
\* run, unchecked, and a branch that was never ignored, checked
C10_Witness ==
    /\ IsCleanup
    /\ run = 2
    /\ Len(widget) = 2
    /\ \E o \in 1..Len(widget[1].options) :
          /\ widget[1].options[o].text \in hist.leftWorktrees
          /\ ~widget[1].options[o].selected
    /\ \E o \in 1..Len(widget[2].options) :
          /\ widget[2].options[o].text \in hist.leftBranches
          /\ ~widget[2].options[o].selected
    /\ \E o \in 1..Len(widget[2].options) :
          /\ widget[2].options[o].text \notin hist.ignoredBranches
          /\ widget[2].options[o].selected

----------------------------------------------------------------------------
\* setIgnoredBranches and getIgnoredBranches, called on their own

MaxIgnored == 2

\* a name that is the empty string, and a name that holds a space
EMPTY_NAME == << >>

SPACED_NAME == <<"x", " ", "y">>

IgnoreNames == {bx, by, bxBackup, EMPTY_NAME, SPACED_NAME}

StoredValues ==
    { [set |-> FALSE, val |-> << >>],
      [set |-> TRUE, val |-> << >>],
      [set |-> TRUE, val |-> bx],
      [set |-> TRUE, val |-> JoinSpace(<<bxBackup, by>>)],
      [set |-> TRUE, val |-> <<"x", " ", " ", "y">>] }

InitIgnored ==
    /\ branches = <<Branch(main, NONE)>>
    /\ worktrees = <<Worktree(PRIMARY, main)>>
    /\ wtIgnore = [p \in AllPaths |-> "absent"]
    /\ worktreeConfig = FALSE
    /\ ignoredCfg \in StoredValues
    /\ remoteDeleted = {}
    /\ \/ /\ caller = "setIgnoredBranches"
          /\ pc = "set_ignored"
          /\ \E names \in SeqsUpTo(IgnoreNames, MaxIgnored) :
                loc = [EmptyLoc EXCEPT !.unselectedBranches = names]
       \/ /\ caller = "getIgnoredBranches"
          /\ pc = "gib_start"
          /\ loc = EmptyLoc
    /\ run = 1
    /\ calls = << >>
    /\ widget = << >>
    /\ hist = NoHist

NextIgnored ==
    \/ SetIgnoredBranches
    \/ Persisted
    \/ ReadBack
    \/ GibStart
    \/ GibQuery
    \/ ExecConfigSet
    \/ ExecQuery

SpecIgnored == InitIgnored /\ [][NextIgnored]_vars

Writes == Idx("persist", "set-ignored-branches")

\* getIgnoredBranches has returned after setIgnoredBranches(loc.unselectedBranches)
ReadBackDone == caller = "getIgnoredBranches" /\ pc = "done" /\ Writes # {}

HasSpace(name) == \E k \in 1..Len(name) : name[k] = " "

PlainNames(names) == \A i \in 1..Len(names) : names[i] # << >> /\ ~HasSpace(names[i])

\* C11: setIgnoredBranches(names) followed by getIgnoredBranches() returns
\* names, in order, when every name is non-empty and holds no space; for the
\* empty list the write is still issued, with an empty value, and the read
\* returns the empty list.
C11_RoundTrip ==
    /\ (ReadBackDone /\ PlainNames(loc.unselectedBranches)) =>
          loc.ignoredBranches = loc.unselectedBranches
    /\ (ReadBackDone /\ loc.unselectedBranches = << >>) =>
          /\ Cardinality(Writes) = 1
          /\ \A w \in Writes : calls[w].arg = << >> /\ calls[w].st = "ok"
          /\ ignoredCfg = [set |-> TRUE, val |-> << >>]
          /\ loc.ignoredBranches = << >>
    /\ (caller = "setIgnoredBranches" /\ pc = "done") => Cardinality(Writes) = 1

\* two names were written over another stored value and read back
C11_Witness ==
    /\ ReadBackDone
    /\ loc.unselectedBranches = <<by, bxBackup>>
    /\ loc.ignoredBranches = <<by, bxBackup>>

\* the empty list was written over a stored value and read back
C11_WitnessEmpty ==
    /\ ReadBackDone
    /\ loc.unselectedBranches = << >>
    /\ \E w \in Writes : calls[w].st = "ok"

\* getIgnoredBranches was called on its own and has returned
ReadDone == caller = "getIgnoredBranches" /\ pc = "done" /\ Writes = {}

ReadCall == TheCall("readIgnored", "get-ignored-branches")

\* C12: getIgnoredBranches returns the empty list, without an error, when the
\* key is absent, when the query exits with failure, or when the stored value
\* is blank; otherwise it returns the space-separated tokens of the value.
C12_ReadIgnored ==
    /\ caller = "getIgnoredBranches" => pc # "failed"
    /\ ReadDone =>
          /\ ~ignoredCfg.set => loc.ignoredBranches = << >>
          /\ ReadCall.st = "failed" => loc.ignoredBranches = << >>
          /\ ignoredCfg.val = << >> => loc.ignoredBranches = << >>
          /\ (ignoredCfg.set /\ ignoredCfg.val # << >>) =>
                /\ ReadCall.st = "ok"
                /\ Len(loc.ignoredBranches) >= 1
                /\ \A i \in 1..Len(loc.ignoredBranches) : ~HasSpace(loc.ignoredBranches[i])
                /\ JoinSpace(loc.ignoredBranches) = ignoredCfg.val

\* the query failed on an absent key and the empty list was returned
C12_Witness ==
    /\ ReadDone
    /\ ~ignoredCfg.set
    /\ ReadCall.st = "failed"
    /\ loc.ignoredBranches = << >>

\* a blank value was read
C12_WitnessBlank == ReadDone /\ ignoredCfg.set /\ ignoredCfg.val = << >> /\ ReadCall.st = "ok"

\* a value of two names was read
C12_WitnessTokens == ReadDone /\ loc.ignoredBranches = <<bxBackup, by>>

----------------------------------------------------------------------------
\* getRemovableWorktrees, called on its own

WorktreeBranches ==
    { <<Branch(main, NONE), Branch(bx, t1), Branch(by, t2)>> : t1 \in Tracks, t2 \in Tracks }

\* a flag is stored only for a worktree that exists, with worktree-scoped
\* configuration enabled
WorktreeFlags(wts, enabled) ==
    { f \in [AllPaths -> {"absent", "true", "false"}] :
        \A p \in AllPaths : f[p] # "absent" => (enabled /\ p \in Paths(wts) \ {PRIMARY}) }

InitWorktrees ==
    /\ branches \in WorktreeBranches
    /\ worktrees \in FlowWorktrees(branches)
    /\ worktreeConfig \in BOOLEAN
    /\ wtIgnore \in WorktreeFlags(worktrees, worktreeConfig)
    /\ ignoredCfg = [set |-> FALSE, val |-> << >>]
    /\ remoteDeleted = {}
    /\ caller = "getRemovableWorktrees"
    /\ pc = "grw_start"
    /\ run = 1
    /\ calls = << >>
    /\ widget = << >>
    /\ loc = EmptyLoc
    /\ hist = NoHist

NextWorktrees ==
    \/ GrwStart
    \/ GrwList
    \/ GrwQueries
    \/ ExecQuery

SpecWorktrees == InitWorktrees /\ [][NextWorktrees]_vars

WorktreesReturned == caller = "getRemovableWorktrees" /\ pc = "done"

\* the flag query run in the worktree at `path`
FlagCall(path) == calls[CHOOSE i \in IdxAt("classifyWorktrees", "get-ignore", path) : TRUE]

\* C13: a removable worktree is reported ignored exactly when its flag query
\* returned the string "true"; a value "false", an absent key or a failed
\* query gives ignored = false, raises no error and leaves the worktree in
\* the result.
C13_IgnoredFlag ==
    /\ caller = "getRemovableWorktrees" => pc # "failed"
    /\ WorktreesReturned =>
          /\ RemovablePaths = Filter(ListedPaths, { i \in 2..Len(worktrees) : OnGoneBranch(i) })
          /\ \A i \in 1..Len(loc.removableWorktrees) :
                LET w == loc.removableWorktrees[i] IN
                /\ w.ignored <=> (FlagCall(w.path).out = TRUE_TEXT)
                /\ w.ignored <=> (worktreeConfig /\ wtIgnore[w.path] = "true")
                /\ FlagCall(w.path).st = "failed" => ~w.ignored

\* of two returned worktrees one has the flag "true" and the other "false"
C13_Witness ==
    /\ WorktreesReturned
    /\ Len(loc.removableWorktrees) = 2
    /\ \E i, j \in 1..2 :
          /\ loc.removableWorktrees[i].ignored
          /\ ~loc.removableWorktrees[j].ignored
          /\ FlagCall(loc.removableWorktrees[j].path).out = FALSE_TEXT

\* a worktree whose flag query failed is returned, not ignored
C13_WitnessFailed ==
    /\ WorktreesReturned
    /\ \E i \in 1..Len(loc.removableWorktrees) :
          /\ FlagCall(loc.removableWorktrees[i].path).st = "failed"
          /\ ~loc.removableWorktrees[i].ignored

----------------------------------------------------------------------------
\* getRemovableBranches: the ignored state, the backup rule and the order

MaxListed == 3

\* a name that differs from x by case only
bX == <<"X">>

NamesListed == {bx, bX, bxBackup, bxBackupBackup, by}

ListingsOf ==
    { l \in SeqsUpTo({ Branch(n, t) : n \in NamesListed, t \in Tracks }, MaxListed) :
        \A i, j \in 1..Len(l) : i # j => l[i].name # l[j].name }

\* values of cleanup.ignoredBranches: unset; x and a name that is no branch;
\* x-backup and X
PersistedIgnored ==
    { [set |-> FALSE, val |-> << >>],
      [set |-> TRUE, val |-> JoinSpace(<<bx, bz>>)],
      [set |-> TRUE, val |-> JoinSpace(<<bxBackup, bX>>)] }

InitListing ==
    /\ branches \in ListingsOf
    /\ worktrees = <<Worktree(PRIMARY, NoBranch)>>
    /\ wtIgnore = [p \in AllPaths |-> "absent"]
    /\ worktreeConfig = FALSE
    /\ ignoredCfg \in PersistedIgnored
    /\ remoteDeleted = {}
    /\ caller = "getRemovableBranches"
    /\ pc = "grb_start"
    /\ run = 1
    /\ calls = << >>
    /\ widget = << >>
    /\ loc = EmptyLoc
    /\ hist = NoHist

SpecListing == InitListing /\ [][NextBranches]_vars

\* C14: a returned branch has ignored = true exactly when its name is, by
\* exact match, a token of the persisted value; a persisted name that is not
\* a removable branch adds nothing to the result.
C14_IgnoredBranches ==
    Returned =>
        /\ \A i \in 1..Len(loc.removableBranches) :
              loc.removableBranches[i].ignored <=>
                 (ignoredCfg.set /\ loc.removableBranches[i].name \in Tokens(ignoredCfg.val))
        /\ ResultNames \subseteq BranchNames(branches)
        /\ \A cfg \in PersistedIgnored :
              ResultNames = { r.name : r \in SeqToSet(
                                GetRemovableBranchesResult(BranchLines(branches),
                                                           GetIgnoredBranchesResult(cfg.val))) }

\* x is persisted and returned ignored; X, gone as well, is returned not
\* ignored; z is persisted and not returned
C14_Witness ==
    /\ Returned
    /\ bz \in Tokens(ignoredCfg.val)
    /\ \E i, j \in 1..Len(loc.removableBranches) :
          /\ loc.removableBranches[i] = [name |-> bx, ignored |-> TRUE]
          /\ loc.removableBranches[j] = [name |-> bX, ignored |-> FALSE]

\* a backup of an ignored branch is returned, not ignored itself
C14_WitnessBackup ==
    /\ Returned
    /\ bx \in Tokens(ignoredCfg.val)
    /\ \E i \in 1..Len(loc.removableBranches) :
          loc.removableBranches[i] = [name |-> bxBackup, ignored |-> FALSE]

TrackOf(name) == branches[CHOOSE i \in 1..Len(branches) : branches[i].name = name].track

\* C15: one backup suffix is stripped to find the parent, never two: while
\* x-backup is listed and not gone, x-backup-backup is not removable whatever
\* x is; with x gone, x and x-backup are removable. The immediate parent alone
\* decides: x-backup-backup is removable when x-backup is gone or not listed.
C15_OneStrip ==
    (Returned /\ bxBackupBackup \in BranchNames(branches) /\ TrackOf(bxBackupBackup) = NONE) =>
        /\ (bxBackup \in BranchNames(branches) /\ TrackOf(bxBackup) = NONE) =>
              /\ bxBackupBackup \notin ResultNames
              /\ (bx \in BranchNames(branches) /\ TrackOf(bx) = GONE) =>
                    {bx, bxBackup} \subseteq ResultNames
        /\ (bxBackup \in BranchNames(branches) /\ TrackOf(bxBackup) = GONE) =>
              bxBackupBackup \in ResultNames
        /\ bxBackup \notin BranchNames(branches) => bxBackupBackup \in ResultNames

\* x[gone], x-backup, x-backup-backup: x and x-backup are returned
C15_Witness ==
    /\ Returned
    /\ BranchNames(branches) = {bx, bxBackup, bxBackupBackup}
    /\ TrackOf(bx) = GONE /\ TrackOf(bxBackup) = NONE /\ TrackOf(bxBackupBackup) = NONE
    /\ ResultNames = {bx, bxBackup}

ListedNameSeq == [ i \in 1..Len(branches) |-> branches[i].name ]

ResultNameSeq == [ i \in 1..Len(loc.removableBranches) |-> loc.removableBranches[i].name ]

\* C16: the returned branches are in the order of the listing: the result is
\* the listing with the branches that are not removable left out, no branch
\* twice.
C16_ListingOrder ==
    Returned =>
        /\ ResultNameSeq =
              Filter(ListedNameSeq, { i \in 1..Len(branches) : branches[i].name \in ResultNames })
        /\ Cardinality(ResultNames) = Len(loc.removableBranches)

\* an orphaned backup listed before two gone branches that are not in
\* alphabetical order
C16_Witness ==
    /\ Returned
    /\ ResultNameSeq = <<bxBackup, by, bX>>

----------------------------------------------------------------------------
\* The flow: order of the phases

\* the place of a call's phase in cleanup
PhaseRank(phase) ==
    CASE phase = "fetch" -> 1
      [] phase = "classifyWorktrees" -> 2
      [] phase = "mutateWorktrees" -> 3
      [] phase = "classifyBranches" -> 4
      [] phase = "mutateBranches" -> 5
      [] phase = "persist" -> 6

Rank(i) == PhaseRank(calls[i].phase)

NoneRunning == \A i \in 1..Len(calls) : calls[i].st # "running"

WidgetMessages == [ k \in 1..Len(widget) |-> widget[k].message ]

\* C17: the executor calls are issued phase after phase, in the order fetch,
\* classify worktrees, mutate worktrees, classify branches, mutate branches,
\* persist; a call of a later phase is issued only when every call of the
\* earlier phases has completed; each prompt comes between the classification
\* and the mutation of its phase; the persist call has completed when the
\* flow ends.
C17_PhaseOrder ==
    IsCleanup =>
        /\ \A i, j \in 1..Len(calls) : i < j => Rank(i) <= Rank(j)
        /\ \A i, j \in 1..Len(calls) : Rank(i) < Rank(j) => calls[i].st # "running"
        /\ WidgetMessages \in { << >>, <<WORKTREES_MESSAGE>>, <<BRANCHES_MESSAGE>>,
                                <<WORKTREES_MESSAGE, BRANCHES_MESSAGE>> }
        /\ pc = "prompt_wt" =>
              NoneRunning /\ \A i \in 1..Len(calls) : Rank(i) <= 2
        /\ pc = "prompt_br" =>
              NoneRunning /\ \A i \in 1..Len(calls) : Rank(i) <= 4
        /\ Asked(WORKTREES_MESSAGE) =>
              /\ \A i \in 1..Len(calls) : Rank(i) <= 2 => calls[i].st # "running"
              /\ Idx("classifyWorktrees", "worktree-list") # {}
        /\ Asked(BRANCHES_MESSAGE) =>
              /\ \A i \in 1..Len(calls) : Rank(i) <= 4 => calls[i].st # "running"
              /\ Idx("classifyBranches", "branch-list") # {}
        /\ (loc.removableWorktrees # << >> /\ \E i \in 1..Len(calls) : Rank(i) >= 3) =>
              Asked(WORKTREES_MESSAGE)
        /\ (loc.removableBranches # << >> /\ \E i \in 1..Len(calls) : Rank(i) >= 5) =>
              Asked(BRANCHES_MESSAGE)
        /\ pc = "done" =>
              /\ NoneRunning
              /\ Cardinality(Idx("persist", "set-ignored-branches")) = 1
              /\ calls[Len(calls)].cmd = "set-ignored-branches" /\ calls[Len(calls)].st = "ok"
              /\ calls[1].cmd = "fetch" /\ calls[1].st = "ok"
              /\ \A r \in {2, 4} : \E i \in 1..Len(calls) : Rank(i) = r

\* a run that went through every phase with calls in each: two worktree
\* mutations, both prompts, a detach and a delete, then the persist call
C17_Witness ==
    /\ IsCleanup
    /\ pc = "done"
    /\ { Rank(i) : i \in 1..Len(calls) } = 1..6
    /\ Len(widget) = 2
    /\ Removes(W2) # {} /\ FlagSets(W1) # {}
    /\ Detaches # {}

----------------------------------------------------------------------------
\* The flow: failures

\* the calls that exited with failure and whose failure is thrown
Thrown ==
    { i \in 1..Len(calls) :
        /\ calls[i].st = "failed"
        /\ calls[i].cmd \in {"fetch", "worktree-remove", "switch-detach", "branch-D"} }

SameCommand(i, j) ==
    /\ calls[i].cmd = calls[j].cmd
    /\ calls[i].path = calls[j].path
    /\ calls[i].arg = calls[j].arg

\* C18: when the fetch, a worktree removal, a detach or the branch delete
\* fails, the flow does not reach its end: the failed call is not issued
\* again, no call of a later phase is issued, cleanup.ignoredBranches keeps
\* the value it had when the run began, and what completed stays as it is.
C18_FailureStops ==
    (IsCleanup /\ Thrown # {}) =>
        /\ pc # "done"
        /\ \A i \in Thrown :
              /\ \A j \in 1..Len(calls) : Rank(j) <= Rank(i)
              /\ \A j \in 1..Len(calls) : (j # i /\ SameCommand(i, j)) => FALSE
              /\ calls[i].cmd = "fetch" => (Len(calls) = 1 /\ widget = << >>)
              /\ calls[i].cmd = "worktree-remove" => ~Asked(BRANCHES_MESSAGE)
              /\ calls[i].cmd = "switch-detach" => Deletes = {}
        /\ Writes = {}
        /\ ignoredCfg = hist.persisted
        /\ \A j \in 1..Len(calls) :
              calls[j].st = "ok" =>
                 /\ calls[j].cmd = "worktree-remove" => calls[j].path \notin Paths(worktrees)
                 /\ calls[j].cmd = "set-ignore" =>
                       (calls[j].path \in Paths(worktrees) => wtIgnore[calls[j].path] = "true")
                 /\ calls[j].cmd = "switch-detach" =>
                       (calls[j].path \in Paths(worktrees) =>
                          worktrees[IndexOfPath(worktrees, calls[j].path)].branch = NoBranch)

\* the branch delete failed after a worktree was removed and another was
\* detached; the flow has stopped and the stored names are those of before
C18_Witness ==
    /\ IsCleanup
    /\ pc = "failed"
    /\ \E i \in Thrown : calls[i].cmd = "branch-D"
    /\ \E j \in Idx("mutateWorktrees", "worktree-remove") : calls[j].st = "ok"
    /\ \E j \in Detaches : calls[j].st = "ok"
    /\ ignoredCfg.set /\ ignoredCfg.val # << >>

\* a worktree removal failed while another one succeeded
C18_WitnessRemoval ==
    /\ IsCleanup
    /\ pc = "failed"
    /\ \E i \in Thrown : calls[i].cmd = "worktree-remove"
    /\ \E j \in Idx("mutateWorktrees", "worktree-remove") : calls[j].st = "ok"

\* the fetch failed
C18_WitnessFetch == IsCleanup /\ pc = "failed" /\ \E i \in Thrown : calls[i].cmd = "fetch"

----------------------------------------------------------------------------
\* prompt, called on its own

MaxOptions == 3

\* options may repeat a text
OptionsOffered == { [text |-> t, selected |-> b] : t \in {bx, by}, b \in BOOLEAN }

InitPrompt ==
    /\ branches = <<Branch(main, NONE)>>
    /\ worktrees = <<Worktree(PRIMARY, main)>>
    /\ wtIgnore = [p \in AllPaths |-> "absent"]
    /\ worktreeConfig = FALSE
    /\ ignoredCfg = [set |-> FALSE, val |-> << >>]
    /\ remoteDeleted = {}
    /\ caller = "prompt"
    /\ pc = "prompt"
    /\ run = 1
    /\ calls = << >>
    /\ widget = << >>
    /\ \E options \in SeqsUpTo(OptionsOffered, MaxOptions) :
          loc = [EmptyLoc EXCEPT !.options = options]
    /\ hist = NoHist

NextPrompt == Prompt

SpecPrompt == InitPrompt /\ [][NextPrompt]_vars

PromptReturned == caller = "prompt" /\ pc = "done"

\* the k-th smallest element of a set of indices
NthOf(S, k) == CHOOSE x \in S : Cardinality({ y \in S : y < x }) = k - 1

\* the texts of the options at the indices of S, in the order of the options
TextsAt(S) == [ k \in 1..Cardinality(S) |-> loc.options[NthOf(S, k)].text ]

Chosen == loc.worktreeIndexes

NotChosen == (1..Len(loc.options)) \ Chosen

\* C19: prompt returns as selected the options at the indices the widget
\* returned and as unselected all the others, both in the order of the
\* options, every option in exactly one of the two; deselected is the
\* unselected options whose default state was checked.
C19_PromptPartition ==
    PromptReturned =>
        /\ loc.promptResult.selected = TextsAt(Chosen)
        /\ loc.promptResult.unselected = TextsAt(NotChosen)
        /\ Len(loc.promptResult.selected) + Len(loc.promptResult.unselected) = Len(loc.options)
        /\ loc.promptResult.deselected = TextsAt({ i \in NotChosen : loc.options[i].selected })

\* of three options the first and the last were chosen; the one left was
\* checked by default
C19_Witness ==
    /\ PromptReturned
    /\ Len(loc.options) = 3
    /\ Chosen = {1, 3}
    /\ loc.options[2].selected
    /\ loc.promptResult.deselected = <<loc.options[2].text>>

\* an option unchecked by default is left unselected: it is not deselected
C19_WitnessUnchecked ==
    /\ PromptReturned
    /\ Len(loc.options) = 2
    /\ Chosen = {}
    /\ ~loc.options[1].selected /\ loc.options[2].selected
    /\ Len(loc.promptResult.unselected) = 2
    /\ Len(loc.promptResult.deselected) = 1

----------------------------------------------------------------------------
\* The flow: worktree-scoped configuration

\* calls of `git config set extensions.worktreeconfig true`
Toggles == { i \in 1..Len(calls) : calls[i].cmd = "enable-worktreeconfig" }

\* calls that read or write a per-worktree cleanup.ignore
FlagAccesses == { i \in 1..Len(calls) : calls[i].cmd \in {"get-ignore", "set-ignore"} }

\* C20: in a run the toggle that enables worktree-scoped configuration is
\* issued before every read or write of a per-worktree ignore flag, and at
\* most once.
C20_ToggleOnceFirst ==
    IsCleanup =>
        /\ Cardinality(Toggles) <= 1
        /\ \A a \in FlagAccesses : \E t \in Toggles : t < a

\* C20, as far as the code goes: each write of a flag is issued after a toggle
\* of its own ignoreWorktree call has succeeded, one toggle per marked
\* worktree; the reads of the classification come before every toggle.
C20_TogglePerWorktree ==
    IsCleanup =>
        /\ \A a \in FlagAccesses :
              calls[a].cmd = "set-ignore" =>
                 \E t \in Toggles : t < a /\ calls[t].path = calls[a].path /\ calls[t].st = "ok"
        /\ \A a \in FlagAccesses :
              calls[a].cmd = "get-ignore" => \A t \in Toggles : a < t
        /\ Cardinality(Toggles) = Len(loc.deselectedWorktrees)

----------------------------------------------------------------------------
\* deleteBranches in a repository where a branch may be checked out twice
\* (git worktree add --force)

SharedWorktrees ==
    { <<Worktree(PRIMARY, p), Worktree(W1, a), Worktree(W2, b)>> :
        p \in {main, bx}, a \in {bx, by, NoBranch}, b \in {bx, by} }

InitDeleteShared ==
    /\ branches = <<Branch(main, NONE), Branch(bx, GONE), Branch(by, NONE)>>
    /\ worktrees \in SharedWorktrees
    /\ wtIgnore = [p \in AllPaths |-> "absent"]
    /\ worktreeConfig = FALSE
    /\ ignoredCfg = [set |-> FALSE, val |-> << >>]
    /\ remoteDeleted = {}
    /\ caller = "deleteBranches"
    /\ pc = "db_start"
    /\ run = 1
    /\ calls = << >>
    /\ widget = << >>
    /\ \E names \in SeqsUpTo(DeleteNames, MaxNames) : loc = [EmptyLoc EXCEPT !.names = names]
    /\ hist = NoHist

SpecDeleteShared == InitDeleteShared /\ [][NextDelete]_vars

\* the branch lines of the worktree listing that deleteBranches read
ListedBranches ==
    LET out == TheCall("mutateBranches", "worktree-list").out
    IN  MapNotNullish([ i \in 1..Len(out) |-> out[i][3] ],
                      LAMBDA line : StripPrefix(line, "branch"))

\* in that listing every branch is checked out in at most one worktree
ListedOnce ==
    \A i, j \in 1..Len(ListedBranches) : ListedBranches[i] = ListedBranches[j] => i = j

\* C21: once deleteBranches has issued the delete call, no branch of names is
\* checked out in a worktree, provided the listing it read showed every
\* branch in at most one worktree.
C21_NotCheckedOutAtDelete ==
    (caller = "deleteBranches" /\ Deletes # {} /\ ListedOnce) =>
        SeqToSet(loc.names) \cap CheckedOut(worktrees) = {}

\* two branches, one in the primary worktree and one in another, were
\* detached and the delete call is issued
C21_Witness ==
    /\ caller = "deleteBranches"
    /\ \E d \in Deletes : calls[d].st = "running"
    /\ ListedOnce
    /\ loc.names = <<by, bx>>
    /\ loc.detaching = <<W2, PRIMARY>>

\* without the proviso: a branch listed in two worktrees is still checked out
\* in the earlier one when the delete call is issued
C21_SharedStillCheckedOut ==
    /\ caller = "deleteBranches"
    /\ Deletes # {}
    /\ ~ListedOnce
    /\ bx \in SeqToSet(loc.names) \cap CheckedOut(worktrees)

----------------------------------------------------------------------------
\* One run of the flow, from the fetch to the persisted value

NextOnce ==
    \/ Fetch
    \/ AfterFetch
    \/ GrwStart
    \/ GrwList
    \/ GrwQueries
    \/ PromptWorktrees
    \/ IgnoreWorktreeSecond
    \/ MutateWorktrees
    \/ GrbStart
    \/ GrbQueries
    \/ PromptBranches
    \/ DbStart
    \/ DbList
    \/ DbDetach
    \/ DbDelete
    \/ SetIgnoredBranches
    \/ Persisted
    \/ ExecQuery
    \/ ExecFetch
    \/ ExecRemove
    \/ ExecDetach
    \/ ExecBranchDelete
    \/ ExecConfigSet

SpecOnce == Init /\ [][NextOnce]_vars

----------------------------------------------------------------------------
\* The flow: which worktrees are detached

\* the sections of the worktree listing that deleteBranches read
ListedSections == TheCall("mutateBranches", "worktree-list").out

\* the branch the listing shows in the worktree at `path`, if any
ListedBranchAt(path) ==
    LET at == { i \in 1..Len(ListedSections) : ListedSections[i][1].val = path }
    IN  IF at = {} THEN Undefined
        ELSE StripPrefix(ListedSections[CHOOSE i \in at : TRUE][3], "branch")

RemovableBranchNames ==
    { loc.removableBranches[i].name : i \in 1..Len(loc.removableBranches) }

\* C22: a detach call targets only a worktree whose branch is being deleted;
\* a worktree on any other branch, a removable branch left unselected
\* included, gets no detach call and keeps its branch.
C22_DetachOnlyDeleted ==
    (IsCleanup /\ Detaches # {}) =>
        /\ \A d \in Detaches : ListedBranchAt(calls[d].path) \in SeqToSet(loc.names)
        /\ \A i \in 1..Len(worktrees) :
              (worktrees[i].branch # NoBranch /\ worktrees[i].branch \notin SeqToSet(loc.names)) =>
                 /\ IdxAt("mutateBranches", "switch-detach", worktrees[i].path) = {}
                 /\ ListedBranchAt(worktrees[i].path) = worktrees[i].branch

\* the worktree of a selected branch was detached; the worktree of a
\* removable branch left unselected was not and holds its branch
C22_Witness ==
    /\ IsCleanup
    /\ pc = "done"
    /\ \E d \in Detaches : calls[d].path = W2 /\ calls[d].st = "ok"
    /\ bx \in RemovableBranchNames \ SeqToSet(loc.names)
    /\ W1 \in Paths(worktrees)
    /\ worktrees[IndexOfPath(worktrees, W1)].branch = bx

----------------------------------------------------------------------------
\* The flow: only what the user selected is deleted

\* the names the user selected at the branch prompt, in candidate order
SelectedBranchSeq ==
    LET chosen == Filter(loc.removableBranches, loc.branchIndexes)
    IN  [ i \in 1..Len(chosen) |-> chosen[i].name ]

\* the paths the user selected at the worktree prompt
SelectedWorktreePaths == { loc.removableWorktrees[i].path : i \in loc.worktreeIndexes }

\* the paths and names the classification queries of this run listed
ClassifiedPaths ==
    SeqToSet(MapNotNullish(Flatten(TheCall("classifyWorktrees", "worktree-list").out),
                           LAMBDA line : StripPrefix(line, "worktree")))

\* C23: the branch delete call names exactly the branches selected at the
\* branch prompt, and is not issued when none was selected; only worktrees
\* selected at the worktree prompt are removed; what was not selected is
\* still there.
C23_OnlySelected ==
    IsCleanup =>
        /\ \A d \in Deletes : calls[d].arg = SelectedBranchSeq /\ SelectedBranchSeq # << >>
        /\ (PastBranchPrompt /\ loc.branchIndexes = {}) =>
              \A i \in 1..Len(calls) : calls[i].phase # "mutateBranches"
        /\ \A i \in Idx("mutateWorktrees", "worktree-remove") :
              calls[i].path \in SelectedWorktreePaths
        /\ PastWorktreePrompt =>
              \A p \in ClassifiedPaths \ SelectedWorktreePaths : p \in Paths(worktrees)
        /\ PastBranchPrompt =>
              \A i \in 1..Len(loc.removableBranches) :
                 i \notin loc.branchIndexes =>
                    loc.removableBranches[i].name \in BranchNames(branches)

\* two of three offered branches were selected and deleted, the third is
\* still there; one of two offered worktrees was removed
C23_Witness ==
    /\ IsCleanup
    /\ pc = "done"
    /\ Len(loc.removableBranches) = 3
    /\ Len(SelectedBranchSeq) = 2
    /\ \E d \in Deletes : calls[d].st = "ok"
    /\ SeqToSet(SelectedBranchSeq) \cap BranchNames(branches) = {}
    /\ Len(loc.removableWorktrees) = 2
    /\ Cardinality(SelectedWorktreePaths) = 1
    /\ SelectedWorktreePaths \cap Paths(worktrees) = {}

\* nothing was selected at the branch prompt and the run ended without a
\* delete call
C23_WitnessNone ==
    /\ IsCleanup
    /\ pc = "done"
    /\ loc.removableBranches # << >>
    /\ loc.branchIndexes = {}
    /\ Deletes = {}

----------------------------------------------------------------------------
\* getBranchWorktrees, called on its own with a prepared listing

MaxSections == 3

WorktreeLine(path) == [key |-> "worktree", val |-> path]

HeadLine == [key |-> "HEAD", val |-> <<"0">>]

BranchLine(name) == [key |-> "branch", val |-> name]

DetachedLine == [key |-> "detached", val |-> << >>]

\* sections of a listing: a worktree on a branch, a detached worktree, and a
\* section that lacks its worktree line
SectionsListed ==
    { <<WorktreeLine(p), HeadLine, BranchLine(b)>> : p \in {PRIMARY, W1}, b \in {main, bx} }
    \cup { <<WorktreeLine(p), HeadLine, DetachedLine>> : p \in {PRIMARY, W1} }
    \cup { <<HeadLine, BranchLine(bx)>> }

InitMap ==
    /\ branches = <<Branch(main, NONE)>>
    /\ worktrees = <<Worktree(PRIMARY, main)>>
    /\ wtIgnore = [p \in AllPaths |-> "absent"]
    /\ worktreeConfig = FALSE
    /\ ignoredCfg = [set |-> FALSE, val |-> << >>]
    /\ remoteDeleted = {}
    /\ caller = "getBranchWorktrees"
    /\ pc = "gbw_start"
    /\ run = 1
    /\ calls = << >>
    /\ widget = << >>
    /\ \E sections \in SeqsUpTo(SectionsListed, MaxSections) :
          loc = [EmptyLoc EXCEPT !.sections = sections]
    /\ hist = NoHist

NextMap ==
    \/ GbwStart
    \/ ExecMockList
    \/ GbwList

SpecMap == InitMap /\ [][NextMap]_vars

MapReturned == caller = "getBranchWorktrees" /\ pc = "done"

\* the values of the lines of section i that carry `key`
ValuesIn(i, key) ==
    { loc.sections[i][k].val : k \in { n \in 1..Len(loc.sections[i]) : loc.sections[i][n].key = key } }

\* the sections that name both a worktree and the branch b
SectionsOn(b) ==
    { i \in 1..Len(loc.sections) : b \in ValuesIn(i, "branch") /\ ValuesIn(i, "worktree") # {} }

\* C24: getBranchWorktrees maps each branch named by a section that also
\* names a worktree to that worktree's path, the first section (the primary
\* worktree) included; a section without a branch line or without a worktree
\* line gives no entry; of two sections naming a branch the later one wins.
C24_BranchWorktrees ==
    MapReturned =>
        /\ DOMAIN loc.branchWorktrees = { b \in {main, bx, by} : SectionsOn(b) # {} }
        /\ \A b \in DOMAIN loc.branchWorktrees :
              LET last == CHOOSE i \in SectionsOn(b) : \A j \in SectionsOn(b) : j <= i
              IN  loc.branchWorktrees[b] \in ValuesIn(last, "worktree")

\* the primary worktree's branch is mapped; a detached section and a section
\* without a worktree line give nothing
C24_Witness ==
    /\ MapReturned
    /\ loc.sections = << <<WorktreeLine(PRIMARY), HeadLine, BranchLine(main)>>,
                         <<WorktreeLine(W1), HeadLine, DetachedLine>>,
                         <<HeadLine, BranchLine(bx)>> >>
    /\ DOMAIN loc.branchWorktrees = {main}
    /\ loc.branchWorktrees[main] = PRIMARY

\* two sections name x: the later one is in the map
C24_WitnessLater ==
    /\ MapReturned
    /\ loc.sections = << <<WorktreeLine(PRIMARY), HeadLine, BranchLine(bx)>>,
                         <<WorktreeLine(W1), HeadLine, BranchLine(bx)>> >>
    /\ loc.branchWorktrees[bx] = W1

----------------------------------------------------------------------------
\* The flow: what concurrently running commands write

\* the pieces of repository state call i writes
WrittenBy(i) ==
    CASE calls[i].cmd = "worktree-remove" -> { <<"worktree", calls[i].path>> }
      [] calls[i].cmd = "switch-detach" -> { <<"HEAD", calls[i].path>> }
      [] calls[i].cmd = "set-ignore" -> { <<"cleanup.ignore", calls[i].path>> }
      [] calls[i].cmd = "enable-worktreeconfig" -> { <<"extensions.worktreeconfig", NoPath>> }
      [] calls[i].cmd = "set-ignored-branches" -> { <<"cleanup.ignoredBranches", NoPath>> }
      [] calls[i].cmd = "branch-D" -> { <<"branches", NoPath>> }
      [] OTHER -> {}

RunningNow == { i \in 1..Len(calls) : calls[i].st = "running" }

\* C25: commands that run at the same time never write the same piece of
\* repository state.
C25_DisjointWrites ==
    IsCleanup =>
        \A i, j \in RunningNow : i # j => WrittenBy(i) \cap WrittenBy(j) = {}

\* C25, as far as the code goes: commands of one kind that run at the same
\* time target distinct worktree paths, and the only piece of state two
\* running commands both write is extensions.worktreeconfig.
C25_DistinctPaths ==
    IsCleanup =>
        \A i, j \in RunningNow :
            i # j =>
               /\ calls[i].cmd = calls[j].cmd => calls[i].path # calls[j].path
               /\ WrittenBy(i) \cap WrittenBy(j) \subseteq { <<"extensions.worktreeconfig", NoPath>> }

----------------------------------------------------------------------------
\* getRemovableWorktrees and getRemovableBranches, each called on its own,
\* their queries returning in any order

InitClassify == InitWorktrees \/ InitListing

NextClassify ==
    \/ GrwStart
    \/ GrwList
    \/ GrwQueries
    \/ GrbStart
    \/ GrbQueries
    \/ ExecQuery

SpecClassify == InitClassify /\ [][NextClassify]_vars

\* what the repository answers to the queries of getRemovableWorktrees,
\* worktree by worktree in listing order
AnsweredWorktrees ==
    LET gone == Filter(ListedPaths, { i \in 2..Len(worktrees) : OnGoneBranch(i) })
    IN  [ i \in 1..Len(gone) |->
            [path |-> gone[i], ignored |-> worktreeConfig /\ wtIgnore[gone[i]] = "true"] ]

\* what the repository answers to the two queries of getRemovableBranches
AnsweredBranches ==
    GetRemovableBranchesResult(BranchLines(branches),
        IF ignoredCfg.set THEN GetIgnoredBranchesResult(ignoredCfg.val) ELSE << >>)

\* C26: whatever the order in which the queries return, getRemovableWorktrees
\* returns the list fixed by the answers of the repository, in the order of
\* the worktree listing, and getRemovableBranches the list fixed by the
\* branch listing and the persisted value.
C26_OrderIndependent ==
    /\ WorktreesReturned => loc.removableWorktrees = AnsweredWorktrees
    /\ Returned => loc.removableBranches = AnsweredBranches

\* two worktrees are returned in listing order, the second one ignored
C26_Witness ==
    /\ WorktreesReturned
    /\ Len(loc.removableWorktrees) = 2
    /\ loc.removableWorktrees[1].path = worktrees[2].path
    /\ loc.removableWorktrees[2].path = worktrees[3].path
    /\ loc.removableWorktrees[2].ignored
    /\ ~loc.removableWorktrees[1].ignored

\* the queries of the later worktree have returned, those of the earlier one
\* have not
C26_WitnessLaterFirst ==
    /\ caller = "getRemovableWorktrees"
    /\ pc = "grw_queries"
    /\ Len(worktrees) = 3
    /\ \A i \in IdxAt("classifyWorktrees", "track", worktrees[3].path)
                \cup IdxAt("classifyWorktrees", "get-ignore", worktrees[3].path) :
          calls[i].st # "running"
    /\ \A i \in IdxAt("classifyWorktrees", "track", worktrees[2].path)
                \cup IdxAt("classifyWorktrees", "get-ignore", worktrees[2].path) :
          calls[i].st = "running"

\* the persisted value is read before the branch listing returns, and a
\* branch is returned ignored
C26_WitnessBranches ==
    /\ Returned
    /\ \E i \in 1..Len(loc.removableBranches) : loc.removableBranches[i].ignored
    /\ \E i \in 1..Len(loc.removableBranches) : ~loc.removableBranches[i].ignored

----------------------------------------------------------------------------
\* The flow: which commands are echoed

\* commands that change the repository or its configuration
Mutations == {"worktree-remove", "switch-detach", "branch-D", "set-ignore",
              "enable-worktreeconfig", "set-ignored-branches"}

\* read-only classification queries
Queries == {"worktree-list", "track", "get-ignore", "branch-list", "get-ignored-branches"}

\* C27: every call that changes the repository or its configuration is
\* echoed before it runs, and no read-only classification query is.
C27_MutationsEcho ==
    IsCleanup =>
        \A i \in 1..Len(calls) :
            /\ calls[i].cmd \in Mutations => calls[i].echo
            /\ calls[i].cmd \in Queries => ~calls[i].echo

\* C27, as far as the code goes: exactly the removals, the detaches and the
\* branch deletion are echoed; the configuration writes and the queries are
\* not.
C27_DestructiveEcho ==
    IsCleanup =>
        \A i \in 1..Len(calls) :
            calls[i].echo <=> calls[i].cmd \in {"worktree-remove", "switch-detach", "branch-D"}

\* the ignored-branches value is written by a call that is not echoed
C27_SilentWrite ==
    /\ IsCleanup
    /\ \E i \in 1..Len(calls) :
          calls[i].cmd = "set-ignored-branches" /\ calls[i].st = "ok" /\ ~calls[i].echo

----------------------------------------------------------------------------
\* getRemovableBranches: backups whose parent exists

\* the backups listed with a parent that is listed too and not gone, neither
\* of them gone itself, the parent's annotation being one of `tracks`
LiveBackups(tracks) ==
    { n \in BranchNames(branches) \ GoneNames(branches) :
        \E i \in 1..Len(branches) :
            /\ IsBackupOf(n, branches[i].name)
            /\ branches[i].track \in tracks \ {GONE} }

\* C28: a backup whose parent is a local branch is never returned as an
\* orphaned backup, whatever annotation the parent's line carries.
C28_ParentExists ==
    Returned => \A n \in LiveBackups(Tracks) : n \notin ResultNames

\* C28, as far as the code goes: the backup of a parent listed with no
\* annotation is not returned.
C28_ParentUnannotated ==
    Returned => \A n \in LiveBackups({NONE}) : n \notin ResultNames

\* the backup of a parent that is ahead of its upstream is returned
C28_AheadParent ==
    /\ Returned
    /\ \E i \in 1..Len(branches) :
          /\ branches[i] = Branch(by, AHEAD)
          /\ byBackup \in ResultNames
          /\ byBackup \in LiveBackups(Tracks)

----------------------------------------------------------------------------
\* The flow: detaches after removals

\* the worktree removals of the run that succeeded
Removed == { i \in Idx("mutateWorktrees", "worktree-remove") : calls[i].st = "ok" }

\* C29: no detach call of the branch phase targets a worktree that was
\* removed in the worktree phase of the run; every detach targets a worktree
\* that exists.
C29_NoDetachOfRemoved ==
    IsCleanup =>
        \A d \in Idx("mutateBranches", "switch-detach") :
            /\ \A r \in Removed : calls[r].path # calls[d].path
            /\ calls[d].path \in Paths(worktrees)

\* a worktree was removed and its branch deleted without a detach there,
\* while another worktree, left in place, was detached
C29_Witness ==
    /\ IsCleanup
    /\ \E r \in Removed : \E d \in Idx("mutateBranches", "switch-detach") :
          /\ calls[d].st = "ok"
          /\ calls[r].path # calls[d].path
          /\ \E k \in Deletes :
                /\ calls[k].st = "ok"
                /\ Len(calls[k].arg) = 2

----------------------------------------------------------------------------
\* The flow run twice, in repositories that may hold a backup of a backup

\* main, x gone; optionally x-backup, optionally x-backup-backup as well;
\* optionally y, gone as well; the primary worktree is on main
ChainBranches ==
    { <<Branch(main, NONE), Branch(bx, GONE)>> \o bk \o y :
        bk \in {<< >>, <<Branch(bxBackup, NONE)>>,
                <<Branch(bxBackup, NONE), Branch(bxBackupBackup, NONE)>>},
        y \in {<< >>, <<Branch(by, GONE)>>} }

InitTwice ==
    /\ branches \in ChainBranches
    /\ worktrees \in { wts \in FlowWorktrees(branches) : wts[1].branch = main }
    /\ wtIgnore \in FlowIgnoreFlags(worktrees)
    /\ worktreeConfig = (\E p \in AllPaths : wtIgnore[p] = "true")
    /\ ignoredCfg \in {[set |-> FALSE, val |-> << >>], [set |-> TRUE, val |-> bxBackup]}
    /\ remoteDeleted = {}
    /\ caller = "cleanup"
    /\ pc = "start"
    /\ run = 1
    /\ calls = << >>
    /\ widget = << >>
    /\ loc = EmptyLoc
    /\ hist = [NoHist EXCEPT !.ignoredWorktrees = { p \in AllPaths : wtIgnore[p] = "true" },
                             !.ignoredBranches = SeqToSet(GetIgnoredBranchesResult(ignoredCfg.val)),
                             !.persisted = ignoredCfg]

NextTwice ==
    \/ Fetch
    \/ AfterFetch
    \/ GrwStart
    \/ GrwList
    \/ GrwQueries
    \/ PromptWorktrees
    \/ IgnoreWorktreeSecond
    \/ MutateWorktrees
    \/ GrbStart
    \/ GrbQueries
    \/ PromptBranches
    \/ DbStart
    \/ DbList
    \/ DbDetach
    \/ DbDelete
    \/ SetIgnoredBranches
    \/ Persisted
    \/ NextRunRecorded
    \/ UpstreamDeleted
    \/ ExecQuery
    \/ ExecFetch
    \/ ExecRemove
    \/ ExecDetach
    \/ ExecBranchDelete
    \/ ExecConfigSet

SpecTwice == InitTwice /\ [][NextTwice]_vars

\* the second of two runs, the first one left at its defaults, nothing
\* deleted upstream in between
SecondDefaultRun == IsCleanup /\ run = 2 /\ hist.defaults /\ ~hist.upstreamChanged

WorktreeDefaultsKept ==
    /\ PastWorktreePrompt
    /\ loc.worktreeIndexes = DefaultIndexes(WorktreeOptions(loc.removableWorktrees))

BranchDefaultsKept ==
    /\ WorktreeDefaultsKept
    /\ PastBranchPrompt
    /\ loc.branchIndexes = DefaultIndexes(BranchOptions(loc.removableBranches))

\* C30 as stated: a second run at its defaults removes no worktree, deletes
\* no branch and leaves the persisted value as the first run wrote it.
C30_SecondRunIdle ==
    SecondDefaultRun =>
        /\ WorktreeDefaultsKept => Idx("mutateWorktrees", "worktree-remove") = {}
        /\ BranchDefaultsKept => Deletes = {}
        /\ (BranchDefaultsKept /\ pc = "done") => ignoredCfg = hist.persisted

\* C30, amended: a second run at its defaults removes no worktree, leaves the
\* persisted value as the first run wrote it, and deletes only backups of
\* branches the first run deleted (a backup of a backup, not removable while
\* its parent existed); if no such branch is left it deletes nothing.
C30_SecondRunOnlyChained ==
    SecondDefaultRun =>
        /\ WorktreeDefaultsKept => Idx("mutateWorktrees", "worktree-remove") = {}
        /\ BranchDefaultsKept =>
              \A d \in Deletes : \A k \in 1..Len(calls[d].arg) :
                  \E parent \in hist.deleted : IsBackupOf(calls[d].arg[k], parent)
        /\ (BranchDefaultsKept /\ pc = "done") => ignoredCfg = hist.persisted

\* the first run deleted x and x-backup; the second run, left at its
\* defaults, deletes x-backup-backup
C30_Witness ==
    /\ SecondDefaultRun
    /\ BranchDefaultsKept
    /\ pc = "done"
    /\ hist.deleted = {bx, bxBackup}
    /\ \E d \in Deletes : calls[d].st = "ok" /\ calls[d].arg = <<bxBackupBackup>>

\* the first run removed a worktree, deleted its branch and kept an ignored
\* one; the second run ends with nothing removed or deleted and the same
\* persisted value
C30_WitnessIdle ==
    /\ SecondDefaultRun
    /\ BranchDefaultsKept
    /\ pc = "done"
    /\ hist.deleted # {}
    /\ hist.leftBranches # {}
    /\ Len(worktrees) < 3
    /\ Deletes = {}
    /\ ignoredCfg = hist.persisted
    /\ ignoredCfg.val # << >>

====
